---- MODULE Spec2Model ----
(***************************************************************************)
(* Model of the Ledger Store of PWD Tools (src/utils/database.py): the     *)
(* SQLite file behind DatabaseManager, and one action per DatabaseManager  *)
(* method.  Every method opens its own connection, runs its statements in  *)
(* one implicit transaction and commits (or rolls back on an exception)    *)
(* before it returns, so a method is one atomic step on the file.          *)
(*                                                                         *)
(* The second half models the exporters and the import of PWD Tools        *)
(* (src/utils/pdf_generator.py, src/utils/excel_handler.py): one action    *)
(* per function, each a pure function of its arguments and of the two      *)
(* flags the modules set when they are imported.                           *)
(***************************************************************************)
EXTENDS Integers, Sequences, FiniteSets, TLC

(***************************************************************************)
(* Bounds of the model.                                                    *)
(***************************************************************************)
MaxSaves == 2       \* at most MaxSaves bills, EMD refunds and projects are saved in a run
MaxClock == 1       \* the wall clock (whole seconds) runs from 0 to MaxClock

(***************************************************************************)
(* SQL / Python values.  Every value is a record of the same shape so that *)
(* values of different types can be compared.                              *)
(***************************************************************************)
Null == [t |-> "null", s |-> "", n |-> 0]
TextVal(x) == [t |-> "text", s |-> x, n |-> 0]
IntVal(k) == [t |-> "int", s |-> "", n |-> k]
RealVal(k) == [t |-> "real", s |-> "", n |-> k]
TsVal(k) == [t |-> "ts", s |-> "", n |-> k]
BoolVal(b) == [t |-> "bool", s |-> "", n |-> IF b THEN 1 ELSE 0]

IsNumber(v) == v.t \in {"int", "real", "bool"}

\* Python's == on the values a caller passes and a query returns: 5 == 5.0.
PyEq(a, b) == IF IsNumber(a) /\ IsNumber(b) THEN a.n = b.n ELSE a = b

\* Python's truthiness of a value (None, 0, 0.0 and '' are false).
Truthy(v) ==
    CASE v.t = "null" -> FALSE
      [] v.t \in {"int", "real", "bool"} -> v.n # 0
      [] v.t = "text" -> v.s # ""
      [] OTHER -> TRUE

\* dict.get(key, default)
Get(d, k, default) == IF k \in DOMAIN d THEN d[k] ELSE default

(***************************************************************************)
(* The schema created by init_database.                                    *)
(***************************************************************************)
Schema ==
    [bills |->
        [id |-> "INTEGER", bill_number |-> "TEXT", bill_date |-> "DATE",
         contractor_name |-> "TEXT", project_name |-> "TEXT",
         bill_amount |-> "REAL", status |-> "TEXT", created_at |-> "TIMESTAMP"],
     emd_refunds |->
        [id |-> "INTEGER", contractor_name |-> "TEXT", status |-> "TEXT",
         created_at |-> "TIMESTAMP", tender_number |-> "TEXT", emd_amount |-> "REAL",
         deposit_date |-> "DATE", refund_date |-> "DATE", interest_rate |-> "REAL",
         refund_amount |-> "REAL"],
     projects |->
        [id |-> "INTEGER", contractor_name |-> "TEXT", project_name |-> "TEXT",
         status |-> "TEXT", created_at |-> "TIMESTAMP",
         project_code |-> "TEXT", agreement_amount |-> "REAL", start_date |-> "DATE",
         completion_date |-> "DATE"],
     deductions |->
        [id |-> "INTEGER", created_at |-> "TIMESTAMP", bill_id |-> "INTEGER",
         deduction_type |-> "TEXT", amount |-> "REAL", rate |-> "REAL",
         is_statutory |-> "BOOLEAN"],
     settings |->
        [key |-> "TEXT", value |-> "TEXT", updated_at |-> "TIMESTAMP"]]

Tables == DOMAIN Schema
Columns(table) == DOMAIN Schema[table]

\* A schema with no NOT NULL column.
NotNull_None ==
    [bills |-> {}, emd_refunds |-> {}, projects |-> {}, deductions |-> {},
     settings |-> {}]

\* The columns declared NOT NULL.
NotNull ==
    [bills |-> {"bill_number"}, emd_refunds |-> {"tender_number"},
     projects |-> {"project_name"}, deductions |-> {}, settings |-> {}]

\* The three record kinds that have a save_* and a get_* method.
Kinds == {"bills", "emd_refunds", "projects"}

\* A Python value bound to a "?" and stored in a column of the given declared
\* type: sqlite3 binds a bool as the integer 0 or 1, and SQLite's column
\* affinity turns an integer stored in a REAL column into a float; the other
\* declared types keep the values used here.
Affinity(coltype, v) ==
    LET bound == IF v.t = "bool" THEN IntVal(v.n) ELSE v IN
    IF coltype = "REAL" /\ bound.t = "int" THEN RealVal(bound.n) ELSE bound

(***************************************************************************)
(* State.                                                                  *)
(***************************************************************************)
VARIABLES
    db,       \* the database file: table name -> set of rows
    seq,      \* sqlite_sequence: table name -> largest id AUTOINCREMENT has handed out
    now,      \* the wall clock in whole seconds (CURRENT_TIMESTAMP)
    ret,      \* the method that ran last and what it returned or raised
    saved,    \* history: the records accepted by save_* and not updated or deleted since
    written,  \* history: the write the call that returned last made to the file,
              \* NoWrite if it made none
    REPORTLAB_AVAILABLE,  \* pdf_generator: whether "import reportlab" succeeded
    OPENPYXL_AVAILABLE,   \* excel_handler: whether "import openpyxl" succeeded
    generator,            \* the object get_pdf_generator returned last
    out,                  \* the exporter or import function that ran last and
                          \* what it returned or raised
    conn,     \* per session: the connection of the save_bill it is in the middle of
    returned, \* history: the (table, id) pairs the save methods have returned
    shell     \* app.py: st.session_state, the button whose click started the
              \* script run, the option of the selectbox shown, the position
              \* of the run and what it has rendered; history: the target of
              \* the last button handled and the category selected before it

storeVars == <<db, seq, now, ret, saved, written>>
exportVars == <<REPORTLAB_AVAILABLE, OPENPYXL_AVAILABLE, generator, out>>
vars == <<db, seq, now, ret, saved, written,
          REPORTLAB_AVAILABLE, OPENPYXL_AVAILABLE, generator, out,
          conn, returned, shell>>

\* The DatabaseManager instances (sessions) that share the database file.
Sessions == {"s1", "s2"}

(***************************************************************************)
(* The records the callers pass, as Python dicts (a function from the keys *)
(* that are present to their values).                                      *)
(***************************************************************************)
\* init_sample_data's bill, with its two deductions
SampleBill ==
    [bill_number |-> TextVal("B001/2024"), bill_date |-> TextVal("2024-01-15"),
     contractor_name |-> TextVal("ABC Construction"),
     project_name |-> TextVal("Road Construction Project"),
     bill_amount |-> IntVal(500000), status |-> TextVal("Active"),
     deductions |->
        << [amount |-> IntVal(5000), rate |-> RealVal(1),
            type |-> TextVal("Income Tax"), statutory |-> BoolVal(TRUE)],
           [amount |-> IntVal(25000), rate |-> RealVal(5),
            type |-> TextVal("Security Deposit"), statutory |-> BoolVal(FALSE)] >>]

\* init_sample_data's EMD refund
SampleEmd ==
    [contractor_name |-> TextVal("XYZ Builders"), status |-> TextVal("Processed"),
     tender_number |-> TextVal("T001/2024"), emd_amount |-> IntVal(50000),
     deposit_date |-> TextVal("2024-01-10"), refund_date |-> TextVal("2024-02-10"),
     interest_rate |-> RealVal(6), refund_amount |-> IntVal(50500)]

\* init_sample_data's project
SampleProject ==
    [contractor_name |-> TextVal("PQR Infrastructure"),
     project_name |-> TextVal("Bridge Construction"),
     status |-> TextVal("Active"), project_code |-> TextVal("PWD/BRG/001"),
     agreement_amount |-> IntVal(2000000), start_date |-> TextVal("2024-01-01"),
     completion_date |-> TextVal("2024-12-31")]

\* The bill dicts save_bill is called with: the sample bill; a bill with no
\* status, dates or deductions; a bill with no bill_number; a bill whose
\* second deduction has no 'type'.
BillInputs ==
    { SampleBill,
      [bill_number |-> TextVal("B002/2024"), bill_amount |-> RealVal(1200)],
      [contractor_name |-> TextVal("ABC Construction"), bill_amount |-> IntVal(900)],
      [bill_number |-> TextVal("B004/2024"), bill_amount |-> IntVal(300),
       deductions |-> << [amount |-> IntVal(3), type |-> TextVal("Income Tax")],
                         [amount |-> IntVal(4)] >>] }

\* The dicts save_emd_refund is called with: the sample; one with no
\* tender_number, status or dates.
EmdInputs ==
    { SampleEmd,
      [contractor_name |-> TextVal("XYZ Builders"), emd_amount |-> IntVal(1000)] }

\* The dicts save_project is called with: the sample; one with no
\* project_name, status or dates.
ProjectInputs ==
    { SampleProject,
      [project_code |-> TextVal("PWD/RD/002"), agreement_amount |-> IntVal(100)] }

(***************************************************************************)
(* SQL statements on a transaction's working copy tx = [db, seq].          *)
(***************************************************************************)
Max(S) == CHOOSE x \in S : \A y \in S : y <= x

Ids(rows) == {r.id.n : r \in rows}

\* An id taken from the rows present alone (a key without AUTOINCREMENT).
NextId_FromRows(tx, table) == Max({0} \cup Ids(tx.db[table])) + 1

\* AUTOINCREMENT: one more than the largest id ever handed out or present.
NextId(tx, table) == Max({tx.seq[table]} \cup Ids(tx.db[table])) + 1

\* INSERT INTO table (cols) VALUES (vals): vals maps the named columns to the
\* bound values; id and created_at take their defaults, any other column NULL.
NewRow(tx, table, vals, clock) ==
    [c \in Columns(table) |->
        IF c = "id" THEN IntVal(NextId(tx, table))
        ELSE IF c = "created_at" THEN TsVal(clock)
        ELSE IF c \in DOMAIN vals THEN Affinity(Schema[table][c], vals[c])
        ELSE Null]

\* The outcome of a statement: err is "ok" or the exception's class.
Insert(tx, table, vals, clock) ==
    LET row == NewRow(tx, table, vals, clock) IN
    IF \E c \in NotNull[table] : row[c] = Null
    THEN [id |-> 0, tx |-> tx, err |-> "IntegrityError"]
    ELSE [id |-> row.id.n,
          tx |-> [db |-> [tx.db EXCEPT ![table] = @ \cup {row}],
                  seq |-> [tx.seq EXCEPT ![table] = row.id.n]],
          err |-> "ok"]

\* A commit that never reaches the file.
Commit_Lost(old, tx) == old

\* A rollback that keeps what the statements before the exception wrote.
Rollback_Kept(old, tx) == tx

\* conn.commit() at the end of a write method; an exception leaves the
\* "with" block through a rollback instead.
Commit(old, tx) == tx
Rollback(old, tx) == old

(***************************************************************************)
(* Init: the state after DatabaseManager() has created the empty tables.   *)
(***************************************************************************)
NoRet == [id |-> 0, rows |-> <<>>, err |-> "ok", name |-> "__init__", ok |-> FALSE,
          deds |-> <<>>, stats |-> <<>>]
NoWrite == [id |-> 0, table |-> "", name |-> "", session |-> "", data |-> <<>>]

\* No generator has been obtained, no exporter or import function has run.
NoGenerator == [class |-> "None"]
NoOut == [err |-> "ok", name |-> ""]

\* A session that is in no save_bill, and the page before the script has
\* run for the first time.
Idle == [pc |-> "idle"]
NoButton == [place |-> "", target |-> ""]
NoShell == [pc |-> "idle", target |-> "", session_state |-> <<>>,
            pressed |-> NoButton, tool_option |-> "Select Tool", rendered |-> <<>>,
            completed |-> FALSE, previous |-> ""]

\* The empty store; no call is in progress and no page has been asked for.
StoreInit ==
    /\ db = [t \in Tables |-> {}]
    /\ seq = [t \in Tables |-> 0]
    /\ now = 0
    /\ ret = NoRet
    /\ saved = {}
    /\ written = NoWrite
    /\ conn = [s \in Sessions |-> Idle]
    /\ returned = {}
    /\ shell = NoShell

\* The store uses neither exporter: it is modelled with both libraries
\* installed and no exporter called.
Init ==
    /\ StoreInit
    /\ REPORTLAB_AVAILABLE = TRUE
    /\ OPENPYXL_AVAILABLE = TRUE
    /\ generator = NoGenerator
    /\ out = NoOut

\* A save is modelled only within the bound of the model: seq counts the ids
\* handed out, that is the records saved so far.
WithinBounds == seq["bills"] + seq["emd_refunds"] + seq["projects"] < MaxSaves

\* The clock advances by one second.  Timestamps are only ever compared, so
\* a second in which nothing was stored need not be told from the next one.
Tick ==
    /\ now < MaxClock
    /\ \E t \in Tables : \E r \in db[t] : r["created_at"] = TsVal(now)
    /\ now' = now + 1
    /\ UNCHANGED <<db, seq, ret, saved, written>>
    /\ UNCHANGED <<exportVars, conn, returned, shell>>

(***************************************************************************)
(* save_bill, save_emd_refund, save_project                                *)
(***************************************************************************)
\* BillVals with project_name bound from the contractor_name key.
BillVals_WrongKey(bill_data) ==
    [bill_number |-> Get(bill_data, "bill_number", Null),
     bill_date |-> Get(bill_data, "bill_date", Null),
     contractor_name |-> Get(bill_data, "contractor_name", Null),
     project_name |-> Get(bill_data, "contractor_name", Null),
     bill_amount |-> Get(bill_data, "bill_amount", Null),
     status |-> Get(bill_data, "status", TextVal("Active"))]

\* The values save_bill binds to its INSERT INTO bills.
BillVals(bill_data) ==
    [bill_number |-> Get(bill_data, "bill_number", Null),
     bill_date |-> Get(bill_data, "bill_date", Null),
     contractor_name |-> Get(bill_data, "contractor_name", Null),
     project_name |-> Get(bill_data, "project_name", Null),
     bill_amount |-> Get(bill_data, "bill_amount", Null),
     status |-> Get(bill_data, "status", TextVal("Active"))]

\* DeductionVals with the id the cursor held before the bill was inserted.
DeductionVals_StaleId(bill_id, deduction) ==
    [bill_id |-> IntVal(bill_id - 1),
     deduction_type |-> deduction["type"],
     amount |-> deduction["amount"],
     rate |-> Get(deduction, "rate", IntVal(0)),
     is_statutory |-> Get(deduction, "statutory", BoolVal(FALSE))]

\* The values save_bill binds to its INSERT INTO deductions; deduction['type']
\* and deduction['amount'] raise KeyError when the key is absent.
DeductionVals(bill_id, deduction) ==
    [bill_id |-> IntVal(bill_id),
     deduction_type |-> deduction["type"],
     amount |-> deduction["amount"],
     rate |-> Get(deduction, "rate", IntVal(0)),
     is_statutory |-> Get(deduction, "statutory", BoolVal(FALSE))]

\* The loop over bill_data['deductions'].
RECURSIVE SaveDeductions(_, _, _, _)
SaveDeductions(tx, bill_id, deds, clock) ==
    IF deds = <<>> THEN [id |-> bill_id, tx |-> tx, err |-> "ok"]
    ELSE LET deduction == Head(deds) IN
         IF ~({"type", "amount"} \subseteq DOMAIN deduction)
         THEN [id |-> 0, tx |-> tx, err |-> "KeyError"]
         ELSE LET r == Insert(tx, "deductions", DeductionVals(bill_id, deduction), clock) IN
              IF r.err # "ok" THEN r
              ELSE SaveDeductions(r.tx, bill_id, Tail(deds), clock)

\* The statements of save_bill on a working copy: the bill row, then one
\* deduction row per deduction, all with bill_id = cursor.lastrowid.
SaveBillTx(tx, bill_data, clock) ==
    LET r == Insert(tx, "bills", BillVals(bill_data), clock) IN
    IF r.err # "ok" THEN r
    ELSE IF "deductions" \in DOMAIN bill_data
         THEN SaveDeductions(r.tx, r.id, bill_data["deductions"], clock)
         ELSE r

\* The values save_emd_refund binds.
EmdVals(emd_data) ==
    [contractor_name |-> Get(emd_data, "contractor_name", Null),
     status |-> Get(emd_data, "status", TextVal("Processed")),
     tender_number |-> Get(emd_data, "tender_number", Null),
     emd_amount |-> Get(emd_data, "emd_amount", Null),
     deposit_date |-> Get(emd_data, "deposit_date", Null),
     refund_date |-> Get(emd_data, "refund_date", Null),
     interest_rate |-> Get(emd_data, "interest_rate", Null),
     refund_amount |-> Get(emd_data, "refund_amount", Null)]

\* The values save_project binds.
ProjectVals(project_data) ==
    [contractor_name |-> Get(project_data, "contractor_name", Null),
     project_name |-> Get(project_data, "project_name", Null),
     status |-> Get(project_data, "status", TextVal("Active")),
     project_code |-> Get(project_data, "project_code", Null),
     agreement_amount |-> Get(project_data, "agreement_amount", Null),
     start_date |-> Get(project_data, "start_date", Null),
     completion_date |-> Get(project_data, "completion_date", Null)]

\* The end of a save method: commit and return the new id, or roll back and
\* raise.  r is the outcome of the method's statements.
Saved(s, name, table, data, r) ==
    LET old == [db |-> db, seq |-> seq]
        end == IF r.err = "ok" THEN Commit(old, r.tx) ELSE Rollback(old, r.tx)
    IN /\ ret' = [NoRet EXCEPT !.name = name, !.err = r.err, !.id = r.id]
       /\ db' = end.db
       /\ seq' = end.seq
       /\ saved' = IF r.err = "ok"
                   THEN saved \cup {[id |-> r.id, table |-> table, data |-> data]}
                   ELSE saved
       /\ written' = IF r.err = "ok"
                     THEN [id |-> r.id, table |-> table, name |-> name,
                           session |-> s, data |-> data]
                     ELSE NoWrite
       /\ returned' = IF r.err = "ok"
                      THEN returned \cup {[id |-> r.id, table |-> table]}
                      ELSE returned
       /\ UNCHANGED now
       /\ UNCHANGED <<exportVars, conn, shell>>

save_bill(s, bill_data) ==
    /\ WithinBounds
    /\ Saved(s, "save_bill", "bills", bill_data,
             SaveBillTx([db |-> db, seq |-> seq], bill_data, now))

save_emd_refund(s, emd_data) ==
    /\ WithinBounds
    /\ Saved(s, "save_emd_refund", "emd_refunds", emd_data,
             Insert([db |-> db, seq |-> seq], "emd_refunds", EmdVals(emd_data), now))

save_project(s, project_data) ==
    /\ WithinBounds
    /\ Saved(s, "save_project", "projects", project_data,
             Insert([db |-> db, seq |-> seq], "projects", ProjectVals(project_data), now))

(***************************************************************************)
(* get_bills, get_emd_refunds, get_projects, get_bill_with_deductions      *)
(***************************************************************************)
\* The key of ORDER BY created_at: NULL sorts below every timestamp.
SortKey(row) == IF row["created_at"] = Null THEN -1 ELSE row["created_at"].n

\* The sequences "SELECT * FROM table ORDER BY created_at DESC" may return:
\* every row once, keys non-increasing.  The statement names no second key,
\* so rows with equal created_at come in an order SQL leaves unspecified.
OrderByCreatedAtDesc(rows) ==
    LET n == Cardinality(rows) IN
    {q \in [1..n -> rows] :
        /\ \A i, j \in 1..n : i # j => q[i] # q[j]
        /\ \A i, j \in 1..n : i < j => SortKey(q[i]) >= SortKey(q[j])}

Min(a, b) == IF a < b THEN a ELSE b

\* "if limit: query += LIMIT {limit}": a limit that is None or 0 adds nothing.
ApplyLimit(q, limit) ==
    IF Truthy(limit) THEN SubSeq(q, 1, Min(limit.n, Len(q))) ELSE q

\* The limits the callers pass: none, 0 and 1.
Limits == {Null, IntVal(0), IntVal(1)}

\* A read method: the file and the history are left alone.
Read(s, name, result) ==
    /\ ret' = [result EXCEPT !.name = name]
    /\ written' = NoWrite
    /\ UNCHANGED <<db, seq, now, saved>>
    /\ UNCHANGED <<exportVars, conn, returned, shell>>

\* get_bills, get_emd_refunds and get_projects differ in the table only.
GetName(table) ==
    CASE table = "bills" -> "get_bills"
      [] table = "emd_refunds" -> "get_emd_refunds"
      [] table = "projects" -> "get_projects"

get_records(s, table, limit) ==
    \E q \in OrderByCreatedAtDesc(db[table]) :
        Read(s, GetName(table), [NoRet EXCEPT !.rows = ApplyLimit(q, limit)])

get_bills(s, limit) == get_records(s, "bills", limit)
get_emd_refunds(s, limit) == get_records(s, "emd_refunds", limit)
get_projects(s, limit) == get_records(s, "projects", limit)

\* The rows of a SELECT with no ORDER BY, which SQLite scans in id order.
RECURSIVE ByRowid(_)
ByRowid(rows) ==
    IF rows = {} THEN <<>>
    ELSE LET first == CHOOSE r \in rows : \A o \in rows : r.id.n <= o.id.n
         IN <<first>> \o ByRowid(rows \ {first})

get_bill_with_deductions(s, bill_id) ==
    Read(s, "get_bill_with_deductions",
         [NoRet EXCEPT
            !.rows = ByRowid({r \in db["bills"] : r.id.n = bill_id}),
            !.deds = ByRowid({d \in db["deductions"] : d["bill_id"] = IntVal(bill_id)})])

(***************************************************************************)
(* update_record, delete_record                                            *)
(***************************************************************************)
EmptyDict == [k \in {} |-> Null]

\* The (table, field-value map) pairs update_record is called with: the empty
\* map; a new status; a map that names created_at; a map that names a column
\* the table does not have.
UpdateInputs ==
    { <<"bills", EmptyDict>>,
      <<"bills", [status |-> TextVal("Paid")]>>,
      <<"emd_refunds", [created_at |-> Null]>>,
      <<"projects", [bill_number |-> TextVal("B009/2024")]>> }

\* The ids update_record, delete_record and get_bill_with_deductions are called with.
RecordIds == 1..MaxSaves

\* A table name the callers may pass that init_database never creates, and
\* the tables a statement with "WHERE id = ?" cannot be prepared for: the
\* missing one and settings, whose columns are key, value and updated_at.
MissingTables == {"tenders"}
UnwritableTables == MissingTables \cup {"settings"}
HasId(table) == table \in Tables /\ "id" \in Columns(table)

\* "UPDATE table SET c1 = ?, ... WHERE id = ?" on a working copy.  With no
\* column the statement is "UPDATE table SET  WHERE id = ?", a syntax error;
\* an unknown table, an unknown column or a table with no id fails when the
\* statement is prepared; the constraints are checked on the row that matches, if one does.
Update(tx, table, record_id, updates) ==
    LET hit == {r \in tx.db[table] : r.id.n = record_id}
        fail(e) == [tx |-> tx, err |-> e, rowcount |-> 0]
    IN
    IF DOMAIN updates = {} THEN fail("OperationalError")
    ELSE IF ~HasId(table) THEN fail("OperationalError")
    ELSE IF ~(DOMAIN updates \subseteq Columns(table)) THEN fail("OperationalError")
    ELSE IF hit = {} THEN [tx |-> tx, err |-> "ok", rowcount |-> 0]
    ELSE LET old == CHOOSE r \in hit : TRUE
             new == [c \in Columns(table) |->
                        IF c \in DOMAIN updates
                        THEN Affinity(Schema[table][c], updates[c])
                        ELSE old[c]]
         IN
         IF new.id.t # "int" THEN fail("IntegrityError")
         ELSE IF \E c \in NotNull[table] : new[c] = Null THEN fail("IntegrityError")
         ELSE IF \E r \in tx.db[table] \ hit : r.id = new.id THEN fail("IntegrityError")
         ELSE [tx |-> [tx EXCEPT !.db[table] = (@ \ hit) \cup {new}],
               err |-> "ok",
               rowcount |-> 1]

\* Delete that takes a table the file does not have for an empty one.
Delete_IfExists(tx, table, record_id) ==
    LET hit == IF HasId(table)
               THEN {r \in tx.db[table] : r.id.n = record_id}
               ELSE {}
    IN
    [tx |-> IF table \in Tables THEN [tx EXCEPT !.db[table] = @ \ hit] ELSE tx,
     err |-> "ok",
     rowcount |-> Cardinality(hit)]

\* Delete with "WHERE id >= ?".
Delete_FromId(tx, table, record_id) ==
    LET hit == {r \in tx.db[table] : r.id.n >= record_id} IN
    IF ~HasId(table) THEN [tx |-> tx, err |-> "OperationalError", rowcount |-> 0]
    ELSE
    [tx |-> [tx EXCEPT !.db[table] = @ \ hit],
     err |-> "ok",
     rowcount |-> Cardinality(hit)]

\* Delete with foreign keys enforced as ON DELETE CASCADE.
Delete_Cascade(tx, table, record_id) ==
    LET hit == {r \in tx.db[table] : r.id.n = record_id}
        gone == IF table = "bills"
                THEN {d \in tx.db["deductions"] : d["bill_id"] = IntVal(record_id)}
                ELSE {}
    IN
    IF ~HasId(table) THEN [tx |-> tx, err |-> "OperationalError", rowcount |-> 0]
    ELSE
    [tx |-> [db |-> [t \in Tables |->
                        IF t = table THEN tx.db[t] \ hit
                        ELSE IF t = "deductions" THEN tx.db[t] \ gone
                        ELSE tx.db[t]],
             seq |-> tx.seq],
     err |-> "ok",
     rowcount |-> Cardinality(hit)]

\* "DELETE FROM table WHERE id = ?" on a working copy: "no such table" when
\* the file has no table of the name, "no such column" when the table has
\* no id.  No connection sets PRAGMA
\* foreign_keys, so the FOREIGN KEY of deductions is not enforced.
Delete(tx, table, record_id) ==
    LET hit == {r \in tx.db[table] : r.id.n = record_id} IN
    IF ~HasId(table) THEN [tx |-> tx, err |-> "OperationalError", rowcount |-> 0]
    ELSE
    [tx |-> [tx EXCEPT !.db[table] = @ \ hit],
     err |-> "ok",
     rowcount |-> Cardinality(hit)]

\* The end of update_record and delete_record: commit and return
\* cursor.rowcount > 0, or roll back and raise.
Written(s, name, table, record_id, data, r) ==
    LET old == [db |-> db, seq |-> seq]
        end == IF r.err = "ok" THEN Commit(old, r.tx) ELSE Rollback(old, r.tx)
    IN /\ ret' = [NoRet EXCEPT !.name = name, !.err = r.err,
                                !.ok = (r.err = "ok" /\ r.rowcount > 0)]
       /\ db' = end.db
       /\ seq' = end.seq
       /\ saved' = IF r.err = "ok" /\ r.rowcount > 0
                   THEN {e \in saved : ~(e.table = table /\ e.id = record_id)}
                   ELSE saved
       /\ written' = IF r.err = "ok" /\ r.rowcount > 0
                     THEN [id |-> record_id, table |-> table, name |-> name,
                           session |-> s, data |-> data]
                     ELSE NoWrite
       /\ UNCHANGED now
       /\ UNCHANGED <<exportVars, conn, returned, shell>>

update_record(s, table, record_id, updates) ==
    Written(s, "update_record", table, record_id, updates,
            Update([db |-> db, seq |-> seq], table, record_id, updates))

delete_record(s, table, record_id) ==
    Written(s, "delete_record", table, record_id, <<>>,
            Delete([db |-> db, seq |-> seq], table, record_id))

(***************************************************************************)
(* get_statistics                                                          *)
(***************************************************************************)
\* SELECT COUNT(*) FROM table
SqlCount(rows) == IntVal(Cardinality(rows))

RECURSIVE Total(_, _)
Total(rows, col) ==
    IF rows = {} THEN 0
    ELSE LET r == CHOOSE x \in rows : TRUE IN r[col].n + Total(rows \ {r}, col)

\* SELECT SUM(col): NULLs are skipped; with no non-NULL value the sum is NULL.
SqlSum(rows, col) ==
    LET vals == {r \in rows : r[col] # Null} IN
    IF vals = {} THEN Null ELSE RealVal(Total(vals, col))

\* "result if result else 0"
OrZero(result) == IF Truthy(result) THEN result ELSE IntVal(0)

\* Active without the WHERE clause.
Active_NoWhere(rows) == rows

\* WHERE status = 'Active'
Active(rows) == {r \in rows : r["status"] = TextVal("Active")}

Statistics(d) ==
    [total_bills |-> SqlCount(d["bills"]),
     total_emd_refunds |-> SqlCount(d["emd_refunds"]),
     total_projects |-> SqlCount(d["projects"]),
     total_deductions |-> SqlCount(d["deductions"]),
     total_active_bills_amount |-> OrZero(SqlSum(Active(d["bills"]), "bill_amount")),
     total_emd_amount |-> OrZero(SqlSum(d["emd_refunds"], "emd_amount")),
     total_active_projects_value |->
        OrZero(SqlSum(Active(d["projects"]), "agreement_amount"))]

get_statistics(s) ==
    Read(s, "get_statistics", [NoRet EXCEPT !.stats = Statistics(db)])

(***************************************************************************)
(* search_records                                                          *)
(***************************************************************************)
\* The default search columns of each table.
search_columns ==
    [bills |-> <<"bill_number", "contractor_name", "project_name">>,
     emd_refunds |-> <<"tender_number", "contractor_name">>,
     projects |-> <<"project_name", "project_code", "contractor_name">>]

\* The ASCII letters, which are all that SQLite's LIKE folds.
Lowercase == "abcdefghijklmnopqrstuvwxyz"
Uppercase == "ABCDEFGHIJKLMNOPQRSTUVWXYZ"

\* The upper-case letter of each lower-case letter.
UpperOf ==
    [c \in {SubSeq(Lowercase, i, i) : i \in 1..Len(Lowercase)} |->
        LET i == CHOOSE j \in 1..Len(Lowercase) : SubSeq(Lowercase, j, j) = c
        IN SubSeq(Uppercase, i, i)]

\* The character LIKE compares in place of c: a lower-case ASCII letter
\* counts as its upper-case letter, any other character as itself.
Fold(c) == IF c \in DOMAIN UpperOf THEN UpperOf[c] ELSE c

\* LIKE that compares the characters as they are.
RECURSIVE Like_CaseSensitive(_, _)
Like_CaseSensitive(pattern, text) ==
    IF pattern = "" THEN text = ""
    ELSE LET c == SubSeq(pattern, 1, 1)
             rest == SubSeq(pattern, 2, Len(pattern))
         IN
         IF c = "%"
         THEN \E k \in 0..Len(text) : Like_CaseSensitive(rest, SubSeq(text, k + 1, Len(text)))
         ELSE IF text = "" THEN FALSE
         ELSE IF c = "_" THEN Like_CaseSensitive(rest, SubSeq(text, 2, Len(text)))
         ELSE /\ c = SubSeq(text, 1, 1)
              /\ Like_CaseSensitive(rest, SubSeq(text, 2, Len(text)))

\* SQLite's "text LIKE pattern" on strings: '%' stands for any run of
\* characters, '_' for any one character, and any other character for itself
\* in either letter case.
RECURSIVE Like(_, _)
Like(pattern, text) ==
    IF pattern = "" THEN text = ""
    ELSE LET c == SubSeq(pattern, 1, 1)
             rest == SubSeq(pattern, 2, Len(pattern))
         IN
         IF c = "%"
         THEN \E k \in 0..Len(text) : Like(rest, SubSeq(text, k + 1, Len(text)))
         ELSE IF text = "" THEN FALSE
         ELSE IF c = "_" THEN Like(rest, SubSeq(text, 2, Len(text)))
         ELSE /\ Fold(c) = Fold(SubSeq(text, 1, 1))
              /\ Like(rest, SubSeq(text, 2, Len(text)))

\* "column LIKE ?" on a stored value: NULL LIKE anything is NULL, which
\* selects nothing (the search columns are TEXT columns and hold text or NULL).
SqlLike(v, pattern) == v.t = "text" /\ Like(pattern, v.s)

\* "WHERE c1 LIKE ? OR c2 LIKE ? ...", every parameter f"%{search_term}%".
Where(row, columns, search_term) ==
    \E i \in 1..Len(columns) : SqlLike(row[columns[i]], "%" \o search_term \o "%")

\* columns is a list of column names; <<>> stands for None and for [].  With
\* no column to search the method returns an empty DataFrame without running
\* a query; pandas reports a failing query as DatabaseError.
search_records(s, table, search_term, columns) ==
    LET cols == IF columns = <<>> THEN Get(search_columns, table, <<>>) ELSE columns IN
    IF cols = <<>> THEN Read(s, "search_records", NoRet)
    ELSE IF table \notin Tables \/ \E i \in 1..Len(cols) : cols[i] \notin Columns(table)
    THEN Read(s, "search_records", [NoRet EXCEPT !.err = "DatabaseError"])
    ELSE \E q \in OrderByCreatedAtDesc({r \in db[table] : Where(r, cols, search_term)}) :
            Read(s, "search_records", [NoRet EXCEPT !.rows = q])

\* The bills saved before a search: the sample bill, one by a contractor
\* whose name is the sample's in lower case, one by another contractor, one
\* with no contractor.
SearchBills ==
    { SampleBill,
      [bill_number |-> TextVal("B005/2024"), contractor_name |-> TextVal("abc traders"),
       project_name |-> TextVal("Canal Lining")],
      [bill_number |-> TextVal("B006/2024"), contractor_name |-> TextVal("XYZ Builders"),
       project_name |-> TextVal("Road Construction Project")],
      [bill_number |-> TextVal("B002/2024"), bill_amount |-> RealVal(1200)] }

\* The search terms: in upper and in lower case, with LIKE's wildcard
\* characters, the name of another contractor, and the empty one.
SearchTerms == {"ABC", "abc", "XYZ", "_", "%", ""}

\* The (table, columns) pairs search_records is called with: every table
\* with the default columns, bills restricted to contractor_name, a column
\* that settings does not have, and a column of a table the file does not
\* have.
SearchInputs ==
    {<<t, <<>>>> : t \in Tables \cup MissingTables}
        \cup {<<"bills", <<"contractor_name">>>>, <<"settings", <<"contractor_name">>>>,
              <<"tenders", <<"contractor_name">>>>}

Next ==
    \/ Tick
    \/ \E s \in Sessions, d \in BillInputs : save_bill(s, d)
    \/ \E s \in Sessions, d \in EmdInputs : save_emd_refund(s, d)
    \/ \E s \in Sessions, d \in ProjectInputs : save_project(s, d)
    \/ \E s \in Sessions, l \in Limits : get_bills(s, l)
    \/ \E s \in Sessions, l \in Limits : get_emd_refunds(s, l)
    \/ \E s \in Sessions, l \in Limits : get_projects(s, l)
    \/ \E s \in Sessions, i \in RecordIds : get_bill_with_deductions(s, i)
    \/ \E s \in Sessions, i \in RecordIds, u \in UpdateInputs :
            update_record(s, u[1], i, u[2])
    \/ \E s \in Sessions, k \in Kinds, i \in RecordIds : delete_record(s, k, i)
    \/ \E s \in Sessions, t \in UnwritableTables :
            update_record(s, t, 1, [status |-> TextVal("Paid")])
    \/ \E s \in Sessions, t \in UnwritableTables : delete_record(s, t, 1)
    \/ \E s \in Sessions : get_statistics(s)

Spec == Init /\ [][Next]_vars

\* The Ledger Store under saves and searches (the order of the rows found is
\* not what a search is checked for, so the clock is left alone).
SearchNext ==
    \/ \E s \in Sessions, d \in SearchBills : save_bill(s, d)
    \/ \E s \in Sessions, d \in EmdInputs : save_emd_refund(s, d)
    \/ \E s \in Sessions, d \in ProjectInputs : save_project(s, d)
    \/ \E s \in Sessions, q \in SearchInputs, term \in SearchTerms :
            search_records(s, q[1], term, q[2])

SearchSpec == Init /\ [][SearchNext]_vars

(***************************************************************************)
(* The exporters: pdf_generator.py and excel_handler.py                    *)
(***************************************************************************)
\* The module flags are set by the imports at the top of the two modules,
\* once, when the application starts.
ExportInit ==
    /\ StoreInit
    /\ REPORTLAB_AVAILABLE \in BOOLEAN
    /\ OPENPYXL_AVAILABLE \in BOOLEAN
    /\ generator = NoGenerator
    /\ out = NoOut

\* The end of an exporter or import function that returns or raises o.
Exported(o) ==
    /\ out' = o
    /\ UNCHANGED <<REPORTLAB_AVAILABLE, OPENPYXL_AVAILABLE, generator>>
    /\ UNCHANGED <<storeVars, conn, returned, shell>>

Digits == "0123456789"

\* str(n) for 0 <= n.
RECURSIVE Decimal(_)
Decimal(n) ==
    IF n < 10 THEN SubSeq(Digits, n + 1, n + 1)
    ELSE Decimal(n \div 10) \o SubSeq(Digits, (n % 10) + 1, (n % 10) + 1)

\* The "," of a format specification: the digits of n in groups of three.
RECURSIVE Grouped(_)
Grouped(n) ==
    IF n < 1000 THEN Decimal(n)
    ELSE LET low == n % 1000 IN
         Grouped(n \div 1000) \o ","
            \o (IF low < 10 THEN "00" ELSE IF low < 100 THEN "0" ELSE "")
            \o Decimal(low)

\* f"{x:,.2f}" for a whole number of rupees x (every amount of the model is
\* one); the rupee sign the renderers put before it is left out.
Format2f(x) == (IF x < 0 THEN "-" ELSE "") \o Grouped(IF x < 0 THEN -x ELSE x) \o ".00"

\* dict.get(key, default) of a text field, as the renderers print it.
GetText(d, k, default) == IF k \in DOMAIN d THEN d[k].s ELSE default

\* dict.get(key, 0) of a numeric field.
GetNumber(d, k) == IF k \in DOMAIN d THEN d[k].n ELSE 0

\* sum([d.get('amount', 0) for d in deductions])
RECURSIVE SumAmounts(_)
SumAmounts(deductions) ==
    IF deductions = <<>> THEN 0
    ELSE GetNumber(Head(deductions), "amount") + SumAmounts(Tail(deductions))

\* The sum over the deductions whose 'statutory' flag is set only.
DeductionsTotal_StatutoryOnly(bill_data) ==
    SumAmounts(SelectSeq(Get(bill_data, "deductions", <<>>),
                         LAMBDA d : Get(d, "statutory", BoolVal(FALSE)) = BoolVal(TRUE)))

\* sum([d.get('amount', 0) for d in bill_data.get('deductions', [])]), the
\* expression every summary repeats.
DeductionsTotal(bill_data) == SumAmounts(Get(bill_data, "deductions", <<>>))

\* bill_data.get('bill_amount', 0) - sum([...]), likewise.
NetAmount(bill_data) == GetNumber(bill_data, "bill_amount") - DeductionsTotal(bill_data)

\* The bills the renderers are called with: the sample bill; the bill of the
\* specification's scenario, whose second deduction carries a rate and no
\* amount; a bill with no 'deductions' key; one with an empty list; one with
\* no bill_amount; a bill with items and no deductions; one with both; one
\* with an empty list of items.
RenderBills ==
    { SampleBill,
      [bill_number |-> TextVal("B008/2024"), bill_amount |-> IntVal(500000),
       deductions |->
          << [amount |-> IntVal(5000), type |-> TextVal("Income Tax")],
             [rate |-> IntVal(5), type |-> TextVal("Security Deposit")] >>],
      [bill_number |-> TextVal("B002/2024"), bill_amount |-> RealVal(1200)],
      [bill_number |-> TextVal("B003/2024"), bill_amount |-> IntVal(1000),
       deductions |-> <<>>],
      [bill_number |-> TextVal("B007/2024"),
       deductions |-> << [amount |-> IntVal(1500), type |-> TextVal("Labour Cess")] >>],
      [bill_number |-> TextVal("B009/2024"), bill_amount |-> IntVal(2000),
       items |-> << [amount |-> IntVal(2000), description |-> TextVal("Earthwork")] >>],
      [bill_number |-> TextVal("B010/2024"), bill_amount |-> IntVal(3000),
       deductions |-> << [amount |-> IntVal(30), type |-> TextVal("Income Tax")] >>,
       items |-> << [amount |-> IntVal(1000), description |-> TextVal("Earthwork")],
                    [amount |-> IntVal(2000), description |-> TextVal("Concrete")] >>],
      [bill_number |-> TextVal("B011/2024"), bill_amount |-> IntVal(4000),
       items |-> <<>>] }

(***************************************************************************)
(* get_pdf_generator, PDFGenerator, PDFGeneratorFallback                   *)
(***************************************************************************)
\* A factory with no fallback: PDFGenerator() whatever the flag.
PdfGeneratorFor_NoFallback(available) ==
    IF available THEN [err |-> "ok", object |-> [class |-> "PDFGenerator"]]
    ELSE [err |-> "ImportError", object |-> NoGenerator]

\* get_pdf_generator: PDFGenerator() when reportlab was imported, else
\* PDFGeneratorFallback(), whose __init__ sets available = False.
PdfGeneratorFor(available) ==
    IF available THEN [err |-> "ok", object |-> [class |-> "PDFGenerator"]]
    ELSE [err |-> "ok",
          object |-> [class |-> "PDFGeneratorFallback", available |-> FALSE]]

get_pdf_generator ==
    LET r == PdfGeneratorFor(REPORTLAB_AVAILABLE) IN
    /\ out' = [err |-> r.err, name |-> "get_pdf_generator"]
    /\ generator' = r.object
    /\ UNCHANGED <<REPORTLAB_AVAILABLE, OPENPYXL_AVAILABLE>>
    /\ UNCHANGED <<storeVars, conn, returned, shell>>

\* A method of the generator obtained last: the three methods of
\* PDFGeneratorFallback raise NotImplementedError.
Rendered(name, doc) ==
    /\ generator # NoGenerator
    /\ Exported(IF generator.class = "PDFGenerator"
                THEN [err |-> "ok", name |-> name, doc |-> doc]
                ELSE [err |-> "NotImplementedError", name |-> name])

\* The total row of the deductions table of create_bill_pdf, "" when the
\* bill has no deduction and the table is left out.
DeductionsTable(bill_data) ==
    IF Get(bill_data, "deductions", <<>>) # <<>>
    THEN Format2f(SumAmounts(bill_data["deductions"]))
    ELSE ""

\* What create_bill_pdf puts on the page (the amounts of the details table,
\* of the deductions table and of the summary table).
BillPdf(bill_data) ==
    [bill_number |-> GetText(bill_data, "bill_number", "N/A"),
     bill_amount |-> Format2f(GetNumber(bill_data, "bill_amount")),
     total_deductions |-> Format2f(DeductionsTotal(bill_data)),
     deductions_table_total |-> DeductionsTable(bill_data),
     net_amount |-> Format2f(NetAmount(bill_data))]

create_bill_pdf(bill_data) == Rendered("create_bill_pdf", BillPdf(bill_data))

(***************************************************************************)
(* generate_text_bill_report                                               *)
(***************************************************************************)
TextBillReport(bill_data) ==
    [bill_number |-> GetText(bill_data, "bill_number", "N/A"),
     bill_amount |-> Format2f(GetNumber(bill_data, "bill_amount")),
     total_deductions |-> Format2f(DeductionsTotal(bill_data)),
     net_amount |-> Format2f(NetAmount(bill_data))]

generate_text_bill_report(bill_data) ==
    Exported([err |-> "ok", name |-> "generate_text_bill_report",
              doc |-> TextBillReport(bill_data)])

(***************************************************************************)
(* ExcelHandler.create_bill_excel                                          *)
(***************************************************************************)
\* The 'Bill Summary' sheet of the basic branch (summary_data).
BasicBillSummary(bill_data) ==
    [bill_number |-> GetText(bill_data, "bill_number", ""),
     bill_amount |-> Format2f(GetNumber(bill_data, "bill_amount")),
     total_deductions |-> Format2f(DeductionsTotal(bill_data)),
     net_amount |-> Format2f(NetAmount(bill_data))]

\* The 'Bill Summary' sheet of the formatted branch (_add_bill_summary).
add_bill_summary(bill_data) ==
    [bill_number |-> GetText(bill_data, "bill_number", "N/A"),
     bill_amount |-> Format2f(GetNumber(bill_data, "bill_amount")),
     total_deductions |-> Format2f(DeductionsTotal(bill_data)),
     net_amount |-> Format2f(NetAmount(bill_data))]

\* write_excel_file hands the sheets to pd.ExcelWriter(engine='openpyxl'),
\* which imports openpyxl itself and raises ImportError when it cannot:
\* whether it can is a fact of the installation that the flag of
\* excel_handler does not fix.
write_excel_file(name, branch, sheets, doc) ==
    \E engine \in BOOLEAN :
        Exported(IF engine
                 THEN [err |-> "ok", name |-> name, doc |-> doc,
                       branch |-> branch, sheets |-> sheets]
                 ELSE [err |-> "ImportError", name |-> name])

\* pd.DataFrame(records) of a list of dicts, and pd.DataFrame(): the columns
\* are the keys of the records; a frame is empty when it has no row or no
\* column.
ListFrame(records) ==
    [rows |-> records, columns |-> UNION {DOMAIN records[i] : i \in 1..Len(records)}]
FrameEmpty(frame) == frame.columns = {} \/ frame.rows = <<>>

\* items_df and deductions_df: the frame of the list under the key when the
\* key is there and the list is not empty, else pd.DataFrame().
items_df(bill_data) ==
    IF "items" \in DOMAIN bill_data /\ bill_data["items"] # <<>>
    THEN ListFrame(bill_data["items"]) ELSE ListFrame(<<>>)
deductions_df(bill_data) ==
    IF "deductions" \in DOMAIN bill_data /\ bill_data["deductions"] # <<>>
    THEN ListFrame(bill_data["deductions"]) ELSE ListFrame(<<>>)

\* A workbook with the summary sheet alone.
BillSheets_SummaryOnly(bill_data) == << "Bill Summary" >>

\* The sheets of the workbook, in the order they are added (the same
\* statements in both branches).
BillSheets(bill_data) ==
    << "Bill Summary" >>
    \o (IF ~FrameEmpty(items_df(bill_data)) THEN << "Bill Items" >> ELSE <<>>)
    \o (IF ~FrameEmpty(deductions_df(bill_data)) THEN << "Deductions" >> ELSE <<>>)

create_bill_excel(bill_data) ==
    IF ~OPENPYXL_AVAILABLE
    THEN write_excel_file("create_bill_excel", "basic", BillSheets(bill_data),
                          BasicBillSummary(bill_data))
    ELSE Exported([err |-> "ok", name |-> "create_bill_excel", doc |-> add_bill_summary(bill_data),
                   branch |-> "formatted",
                   sheets |-> BillSheets(bill_data)])

(***************************************************************************)
(* The deposit-interest routine.  Its code (tools/financial/emd_refund,    *)
(* imported by src/app.py) is not among the sources; it is modelled from   *)
(* the specification: refund = principal + principal x annualRate/100 x    *)
(* daysHeld/365, daysHeld = refundDate - depositDate in whole days,        *)
(* clamped to zero if negative.  Its result is the emd_data dict whose     *)
(* keys create_emd_refund_pdf reads.                                       *)
(***************************************************************************)
MaxRate == 6        \* the annual rates are the whole percentages 0..MaxRate

\* An amount that is no whole number of rupees: n/d rupees.
Ratio(n, d) == [t |-> "real", s |-> "", n |-> n, d |-> d]

\* int(str) of a string of digits.
RECURSIVE ToInt(_)
ToInt(str) ==
    IF str = "" THEN 0
    ELSE LET last == SubSeq(str, Len(str), Len(str)) IN
         ToInt(SubSeq(str, 1, Len(str) - 1)) * 10
            + (CHOOSE d \in 0..9 : SubSeq(Digits, d + 1, d + 1) = last)

\* The day number of the date 'YYYY-MM-DD' in the Gregorian calendar (days
\* since 1970-01-01), so that a difference of dates is a number of days.
DayNumber(date) ==
    LET y0 == ToInt(SubSeq(date, 1, 4))
        m == ToInt(SubSeq(date, 6, 7))
        d == ToInt(SubSeq(date, 9, 10))
        y == IF m <= 2 THEN y0 - 1 ELSE y0
        era == y \div 400
        yoe == y - era * 400
        doy == (153 * ((m + 9) % 12) + 2) \div 5 + d - 1
        doe == yoe * 365 + yoe \div 4 - yoe \div 100 + doy
    IN era * 146097 + doe - 719468

\* The day count with no clamp.
daysHeld_NoClamp(depositDate, refundDate) == DayNumber(refundDate) - DayNumber(depositDate)

\* daysHeld = refundDate - depositDate in whole days, clamped to zero.
daysHeld(depositDate, refundDate) ==
    LET days == DayNumber(refundDate) - DayNumber(depositDate) IN
    IF days < 0 THEN 0 ELSE days

\* principal x annualRate/100 x daysHeld/365, as a fraction of a rupee.
interest(principal, annualRate, days) == Ratio(principal * annualRate * days, 100 * 365)

\* principal + interest
refund(principal, annualRate, days) ==
    LET i == interest(principal, annualRate, days) IN Ratio(principal * i.d + i.n, i.d)

\* The emd_data the routine hands to the renderers.
EmdData(principal, annualRate, depositDate, refundDate) ==
    LET days == daysHeld(depositDate, refundDate) IN
    [contractor_name |-> TextVal("XYZ Builders"),
     tender_number |-> TextVal("T001/2024"),
     emd_amount |-> IntVal(principal),
     deposit_date |-> TextVal(depositDate),
     refund_date |-> TextVal(refundDate),
     interest_rate |-> IntVal(annualRate),
     days_held |-> IntVal(days),
     interest_amount |-> interest(principal, annualRate, days),
     total_refund |-> refund(principal, annualRate, days)]

Principals == {0, 1000, 50000}
Rates == 0..MaxRate
Dates == {"2023-12-31", "2024-01-10", "2024-02-10", "2024-03-01"}

emd_refund(principal, annualRate, depositDate, refundDate) ==
    Exported([err |-> "ok", name |-> "emd_refund",
              doc |-> EmdData(principal, annualRate, depositDate, refundDate)])

(***************************************************************************)
(* create_emd_refund_pdf, create_project_report_pdf,                       *)
(* generate_text_emd_report                                                *)
(***************************************************************************)
\* f"{x:,.2f}" for n/d rupees: rounded to the nearest paisa (no amount of the
\* model lies halfway between two).
FormatRatio(n, d) ==
    LET paise == (n \div d) * 100 + (2 * 100 * (n % d) + d) \div (2 * d)
        low == paise % 100
    IN Grouped(paise \div 100) \o "." \o (IF low < 10 THEN "0" ELSE "") \o Decimal(low)

\* f"{d.get(key, 0):,.2f}"
FormatField(d, k) ==
    IF k \notin DOMAIN d THEN Format2f(0)
    ELSE IF "d" \in DOMAIN d[k] THEN FormatRatio(d[k].n, d[k].d)
    ELSE Format2f(d[k].n)

\* The EMD records the renderers are called with: the sample of
\* init_sample_data (which has no interest_amount, total_refund or days_held)
\* and two results of the deposit-interest routine.
RenderEmds ==
    { SampleEmd,
      EmdData(50000, 6, "2024-01-10", "2024-02-10"),
      EmdData(1000, 6, "2024-02-10", "2024-01-10") }

\* What create_emd_refund_pdf puts on the page; the calculation paragraph is
\* printed only for a days_held that is not 0.
EmdPdf(emd_data) ==
    [tender_number |-> GetText(emd_data, "tender_number", "N/A"),
     emd_amount |-> FormatField(emd_data, "emd_amount"),
     interest_rate |-> FormatField(emd_data, "interest_rate"),
     days_held |-> IF Truthy(Get(emd_data, "days_held", Null))
                   THEN Decimal(emd_data["days_held"].n)
                   ELSE "",
     interest_amount |-> FormatField(emd_data, "interest_amount"),
     total_refund |-> FormatField(emd_data, "total_refund")]

create_emd_refund_pdf(emd_data) == Rendered("create_emd_refund_pdf", EmdPdf(emd_data))

ProjectPdf(project_data) ==
    [project_name |-> GetText(project_data, "project_name", "N/A"),
     project_code |-> GetText(project_data, "project_code", "N/A"),
     agreement_amount |-> FormatField(project_data, "agreement_amount"),
     work_done_amount |-> FormatField(project_data, "work_done_amount"),
     payments_made |-> FormatField(project_data, "payments_made"),
     outstanding_amount |-> FormatField(project_data, "outstanding_amount")]

create_project_report_pdf(project_data) ==
    Rendered("create_project_report_pdf", ProjectPdf(project_data))

TextEmdReport(emd_data) ==
    [tender_number |-> GetText(emd_data, "tender_number", "N/A"),
     emd_amount |-> FormatField(emd_data, "emd_amount"),
     interest_rate |-> FormatField(emd_data, "interest_rate"),
     total_refund |-> FormatField(emd_data, "total_refund")]

generate_text_emd_report(emd_data) ==
    Exported([err |-> "ok", name |-> "generate_text_emd_report",
              doc |-> TextEmdReport(emd_data)])

(***************************************************************************)
(* ExcelHandler.read_excel_file, process_emd_excel,                        *)
(* validate_excel_structure.  A DataFrame is its column labels and its     *)
(* rows; a label is a string or a number, a cell a string, a number or     *)
(* NaN (Null).                                                             *)
(***************************************************************************)
DataFrame(columns, rows) == [t |-> "DataFrame", rows |-> rows, columns |-> columns]

\* text holds term as a run of consecutive characters, compared as they are.
Contains(text, term) ==
    \E i \in 0..(Len(text) - Len(term)) : SubSeq(text, i + 1, i + Len(term)) = term

\* The lower-case letter of each upper-case letter.
LowerOf ==
    [c \in {SubSeq(Uppercase, i, i) : i \in 1..Len(Uppercase)} |->
        LET i == CHOOSE j \in 1..Len(Uppercase) : SubSeq(Uppercase, j, j) = c
        IN SubSeq(Lowercase, i, i)]

\* str.lower().replace(' ', '_')
Normalised(str) ==
    LET low[i \in 0..Len(str)] ==
            IF i = 0 THEN ""
            ELSE LET c == SubSeq(str, i, i) IN
                 low[i - 1] \o (IF c \in DOMAIN LowerOf THEN LowerOf[c]
                                ELSE IF c = " " THEN "_" ELSE c)
    IN low[Len(str)]

\* ', '.join(names)
Join(names) ==
    LET joined[i \in 0..Len(names)] ==
            IF i = 0 THEN ""
            ELSE IF i = 1 THEN names[1]
            ELSE joined[i - 1] \o ", " \o names[i]
    IN joined[Len(names)]

\* df.columns.str.lower().str.replace(' ', '_'): the .str accessor of an
\* Index of numbers raises AttributeError; in an Index of strings and
\* numbers a number gives NaN.
StrNormalised(columns) ==
    IF columns # <<>> /\ \A i \in 1..Len(columns) : columns[i].t # "text"
    THEN [err |-> "AttributeError", labels |-> {}]
    ELSE [err |-> "ok",
          labels |-> {Normalised(columns[i].s) :
                        i \in {j \in 1..Len(columns) : columns[j].t = "text"}}]

\* df.empty: no column or no row.
Empty(df) == df.columns = <<>> \/ df.rows = <<>>

\* The positions of the columns labelled name ('name in df.columns' is that
\* there is one).
Labelled(df, name) == {i \in 1..Len(df.columns) : df.columns[i] = TextVal(name)}

IsDigits(str) ==
    str # "" /\ \A i \in 1..Len(str) : \E d \in 1..Len(Digits) :
                    SubSeq(str, i, i) = SubSeq(Digits, d, d)

\* A string pandas reads as a date: the inputs write dates as YYYY-MM-DD.
IsDate(str) ==
    /\ Len(str) = 10
    /\ IsDigits(SubSeq(str, 1, 4)) /\ SubSeq(str, 5, 5) = "-"
    /\ IsDigits(SubSeq(str, 6, 7)) /\ SubSeq(str, 8, 8) = "-"
    /\ IsDigits(SubSeq(str, 9, 10))

\* pd.to_datetime(errors='coerce') and pd.to_numeric(errors='coerce') of one
\* cell: what cannot be read becomes NaT / NaN.
ToDatetime(cell) == IF cell.t = "text" /\ ~IsDate(cell.s) THEN Null ELSE cell
ToNumeric(cell) ==
    IF cell.t # "text" THEN cell
    ELSE IF IsDigits(cell.s) THEN IntVal(ToInt(cell.s)) ELSE Null

\* df with the cells of the columns at positions cols converted.
Converted(df, cols, kind) ==
    [df EXCEPT !.rows =
        [r \in 1..Len(df.rows) |->
            [i \in 1..Len(df.columns) |->
                IF i \notin cols THEN df.rows[r][i]
                ELSE IF kind = "datetime" THEN ToDatetime(df.rows[r][i])
                ELSE ToNumeric(df.rows[r][i])]]]

\* df.dropna(subset=names): KeyError(the names that label no column), else
\* the rows with no NaN in those columns.
DropNa(df, names) ==
    LET absent == SelectSeq(names, LAMBDA n : Labelled(df, n) = {})
        cols == UNION {Labelled(df, names[k]) : k \in 1..Len(names)}
    IN IF absent # <<>>
       THEN [err |-> "KeyError", df |-> df, absent |-> absent]
       ELSE [err |-> "ok", df |-> [df EXCEPT !.rows =
                        SelectSeq(df.rows, LAMBDA row : \A i \in cols : row[i] # Null)],
             absent |-> <<>>]

\* repr of a list of strings: ['a', 'b']
ReprList(names) == "[" \o Join([k \in 1..Len(names) |-> "'" \o names[k] \o "'"]) \o "]"

\* read_excel_file: pd.read_excel, any exception of which is raised again as
\* Exception("Error reading Excel file: ...").  file.sheet is the first
\* sheet of the upload, Null for an upload that is no workbook; engine is
\* whether pandas can import openpyxl.
read_excel_file(file, engine) ==
    IF ~engine
    THEN [err |-> "Exception", df |-> Null,
          message |-> "Error reading Excel file: Missing optional dependency 'openpyxl'."]
    ELSE IF file.sheet = Null
    THEN [err |-> "Exception", df |-> Null,
          message |-> "Error reading Excel file: File is not a zip file"]
    ELSE [err |-> "ok", df |-> file.sheet, message |-> ""]

expected_columns ==
    <<"tender_number", "contractor_name", "emd_amount", "deposit_date", "status">>

\* The body of process_emd_excel after the read, for the frame df: the pair
\* it returns.  Every exception is caught and becomes the message.
ProcessedEmd(df) ==
    LET labels == StrNormalised(df.columns)
        missing_columns == SelectSeq(expected_columns, LAMBDA col : col \notin labels.labels)
        dated == Converted(df, Labelled(df, "deposit_date"), "datetime")
        numbered == Converted(dated, Labelled(df, "emd_amount"), "numeric")
        dropped == DropNa(numbered, <<"tender_number", "emd_amount">>)
    IN IF labels.err # "ok"
       THEN [data |-> Null,
             message |-> TextVal("Error processing EMD Excel file: "
                                 \o "Can only use .str accessor with string values!")]
       ELSE IF missing_columns # <<>>
       THEN [data |-> Null,
             message |-> TextVal("Missing columns: " \o Join(missing_columns))]
       ELSE IF dropped.err # "ok"
       THEN [data |-> Null,
             message |-> TextVal("Error processing EMD Excel file: "
                                 \o ReprList(dropped.absent))]
       ELSE [data |-> dropped.df, message |-> Null]

process_emd_excel(file) ==
    \E engine \in BOOLEAN :
        LET read == read_excel_file(file, engine)
            r == IF read.err # "ok"
                 THEN [data |-> Null,
                       message |-> TextVal("Error processing EMD Excel file: "
                                           \o read.message)]
                 ELSE ProcessedEmd(read.df)
        IN Exported([err |-> "ok", name |-> "process_emd_excel", data |-> r.data,
                     df |-> read.df, message |-> r.message])

\* The columns (positions) of df in which every cell is NaN.
EmptyColumns(df) ==
    {i \in 1..Len(df.columns) : \A r \in 1..Len(df.rows) : df.rows[r][i] = Null}

\* pd.to_datetime(df[col], errors='raise') / pd.to_numeric(df[col],
\* errors='raise') raises: df[col] is a frame when col labels two columns,
\* or a cell cannot be read.
Unreadable(df, i, kind) ==
    \/ \E j \in 1..Len(df.columns) : j # i /\ df.columns[j] = df.columns[i]
    \/ \E r \in 1..Len(df.rows) :
          LET cell == df.rows[r][i] IN
          /\ cell.t = "text"
          /\ IF kind = "datetime" THEN ~IsDate(cell.s) ELSE ~IsDigits(cell.s)

\* The warnings of the loop over df.columns, column by column.
FormatWarnings(df) ==
    LET of[i \in 0..Len(df.columns)] ==
            IF i = 0 THEN <<>>
            ELSE LET col == df.columns[i].s
                     col_lower == Normalised(col)
                 IN of[i - 1]
                    \o (IF Contains(col_lower, "date") /\ Unreadable(df, i, "datetime")
                        THEN << "Column '" \o col \o "' may contain invalid dates" >>
                        ELSE <<>>)
                    \o (IF (Contains(col_lower, "amount") \/ Contains(col_lower, "value"))
                           /\ Unreadable(df, i, "numeric")
                        THEN << "Column '" \o col \o "' may contain non-numeric values" >>
                        ELSE <<>>)
    IN of[Len(df.columns)]

\* validate_excel_structure returns (errors, warnings) or raises: nothing
\* catches the AttributeError of .str on an Index of numbers or of
\* col.lower() on a label that is a number, nor the TypeError of joining
\* such a label.
validate_excel_structure(df, required_columns) ==
    LET labels == StrNormalised(df.columns)
        required_lower == [k \in 1..Len(required_columns) |-> Normalised(required_columns[k])]
        missing_columns == SelectSeq(required_lower, LAMBDA col : col \notin labels.labels)
        numbered == {i \in 1..Len(df.columns) : df.columns[i].t # "text"}
        empty_columns == SelectSeq([i \in 1..Len(df.columns) |-> i],
                                   LAMBDA i : i \in EmptyColumns(df))
        result(err, errors, warnings) ==
            [err |-> err, name |-> "validate_excel_structure", df |-> df,
             required_columns |-> required_columns,
             errors |-> errors, warnings |-> warnings]
    IN Exported(
        IF Empty(df) THEN result("ok", << "Excel file is empty" >>, <<>>)
        ELSE IF labels.err # "ok" THEN result("AttributeError", <<>>, <<>>)
        ELSE IF numbered \cap EmptyColumns(df) # {} THEN result("TypeError", <<>>, <<>>)
        ELSE IF numbered # {} THEN result("AttributeError", <<>>, <<>>)
        ELSE result("ok",
                    IF missing_columns # <<>>
                    THEN << "Missing required columns: " \o Join(missing_columns) >>
                    ELSE <<>>,
                    (IF \E i, j \in 1..Len(df.columns) : i # j /\ df.columns[i] = df.columns[j]
                     THEN << "Duplicate column headers detected" >> ELSE <<>>)
                    \o (IF empty_columns # <<>>
                        THEN << "Empty columns detected: "
                                \o Join([k \in 1..Len(empty_columns) |->
                                            df.columns[empty_columns[k]].s]) >>
                        ELSE <<>>)
                    \o FormatWarnings(df)))

\* The rows of the uploads: a complete row, a row with no tender number, a
\* row whose amount is no number, a row whose date is no date.
EmdRows ==
    << << TextVal("T001/2024"), TextVal("ABC Construction"), IntVal(50000),
          TextVal("2024-01-15"), TextVal("Active") >>,
       << Null, TextVal("XYZ Builders"), IntVal(75000),
          TextVal("2024-01-20"), TextVal("Active") >>,
       << TextVal("T003/2024"), TextVal("PQR Infrastructure"), TextVal("abc"),
          TextVal("2024-01-25"), TextVal("Active") >>,
       << TextVal("T004/2024"), TextVal("ABC Construction"), TextVal("1000"),
          TextVal("soon"), TextVal("Active") >> >>

Labels(names) == [k \in 1..Len(names) |-> TextVal(names[k])]

\* The header row of the sheet 'EMD_Data' that create_emd_template writes,
\* and its two sample rows.
TemplateHeaders ==
    <<"Tender Number", "Contractor/Bidder Name", "EMD Amount", "Deposit Date",
      "Tender Date", "Work Description", "Contact Number", "Bank Details",
      "Status", "Remarks">>
TemplateRows ==
    << << TextVal("T001/2024"), TextVal("ABC Construction"), IntVal(50000),
          TextVal("2024-01-15"), TextVal("2024-01-10"), TextVal("Road Construction"),
          TextVal("9876543210"), TextVal("SBI Account"), TextVal("Active"),
          TextVal("Sample data") >>,
       << TextVal("T002/2024"), TextVal("XYZ Builders"), IntVal(75000),
          TextVal("2024-01-20"), TextVal("2024-01-15"), TextVal("Building Construction"),
          TextVal("9876543211"), TextVal("HDFC Account"), TextVal("Active"),
          TextVal("Sample data") >> >>

\* The columns the sheet 'Instructions' lists under "Required Columns:".
TemplateRequired ==
    <<"Tender Number", "Contractor/Bidder Name", "EMD Amount", "Deposit Date">>

\* create_emd_template writes the two sheets through write_excel_file.
create_emd_template ==
    write_excel_file("create_emd_template", "basic", << "EMD_Data", "Instructions" >>,
                     [EMD_Data |-> DataFrame(Labels(TemplateHeaders), TemplateRows),
                      Instructions |-> TemplateRequired])

\* The workbook o that an exporter returned, uploaded as it is:
\* pd.read_excel(..., sheet_name=0) reads its first sheet.
Uploaded(o) == [sheet |-> o.doc[o.sheets[1]]]

\* The first sheets of the uploads: the expected labels with rows and with
\* none; the same labels with capitals and spaces; the template; two of the
\* labels only, with a row and with none; a sheet whose header row holds
\* numbers.
EmdSheets ==
    { DataFrame(Labels(expected_columns), EmdRows),
      DataFrame(Labels(expected_columns), <<>>),
      DataFrame(Labels(<<"Tender Number", "Contractor Name", "EMD Amount",
                         "Deposit Date", "Status">>), EmdRows),
      DataFrame(Labels(TemplateHeaders), TemplateRows),
      DataFrame(Labels(<<"tender_number", "emd_amount">>),
                << <<TextVal("T001/2024"), IntVal(50000)>> >>),
      DataFrame(Labels(<<"tender_number", "emd_amount">>), <<>>),
      DataFrame(<<IntVal(2023), IntVal(2024)>>, << <<IntVal(50000), IntVal(75000)>> >>) }

\* The uploads: a workbook with each of the sheets, and a file that is no
\* workbook.
EmdFiles == {[sheet |-> df] : df \in EmdSheets} \cup {[sheet |-> Null]}

\* The frames validate_excel_structure is called with: the sheets, a frame
\* with a label twice and an empty column, a frame with a string and a
\* number as labels, a frame with no column and no row.
ValidatedFrames ==
    EmdSheets
    \cup { DataFrame(Labels(<<"tender_number", "emd_amount", "emd_amount", "remarks">>),
                     << <<TextVal("T001/2024"), IntVal(50000), IntVal(50000), Null>> >>),
           DataFrame(<<TextVal("tender_number"), IntVal(2024)>>,
                     << <<TextVal("T001/2024"), Null>> >>),
           DataFrame(<<>>, <<>>) }

\* The required_columns it is called with.
RequiredColumns ==
    { expected_columns, <<"Tender Number", "EMD Amount", "Deposit Date">> }

ExportNext ==
    \/ get_pdf_generator
    \/ \E bill_data \in RenderBills : create_bill_pdf(bill_data)
    \/ \E bill_data \in RenderBills : generate_text_bill_report(bill_data)
    \/ \E bill_data \in RenderBills : create_bill_excel(bill_data)
    \/ \E principal \in Principals, annualRate \in Rates, depositDate, refundDate \in Dates :
            emd_refund(principal, annualRate, depositDate, refundDate)
    \/ \E emd_data \in RenderEmds : create_emd_refund_pdf(emd_data)
    \/ \E emd_data \in RenderEmds : generate_text_emd_report(emd_data)
    \/ \E project_data \in ProjectInputs : create_project_report_pdf(project_data)
    \/ create_emd_template
    \/ \E file \in EmdFiles : process_emd_excel(file)
    \/ \E df \in ValidatedFrames, required_columns \in RequiredColumns :
            validate_excel_structure(df, required_columns)

ExportSpec == ExportInit /\ [][ExportNext]_vars

(***************************************************************************)
(* save_bill statement by statement, for calls that overlap.  Each call    *)
(* opens its own connection; its first INSERT begins a transaction and     *)
(* takes the write lock of the file, which SQLite grants to one connection *)
(* at a time; the other statements work on the connection's own copy until *)
(* conn.commit() publishes it.  A connection that finds the file locked    *)
(* waits (it takes no step) and, when the 5 seconds of sqlite3.connect's   *)
(* default timeout are over, raises OperationalError.  Readers see what    *)
(* has been committed.                                                     *)
(***************************************************************************)
\* A file with no write lock.
Locked_Never(s) == FALSE

\* Another connection is inside a write transaction.
Locked(s) == \E o \in Sessions \ {s} : conn[o].pc # "idle"

\* The calls begun: the bills committed and the calls in progress.  A call
\* is begun only within the bound of the model; a call that is refused for
\* the lock is no call begun.
Begun == seq["bills"] + Cardinality({o \in Sessions : conn[o].pc # "idle"})

\* save_bill of session s returns or raises: r is the outcome of its
\* statements, published by the commit or undone by the rollback.
Closed(s, bill_data, r) ==
    LET old == [db |-> db, seq |-> seq]
        end == IF r.err = "ok" THEN Commit(old, r.tx) ELSE Rollback(old, r.tx)
    IN /\ ret' = [NoRet EXCEPT !.name = "save_bill", !.err = r.err, !.id = r.id]
       /\ db' = end.db
       /\ seq' = end.seq
       /\ saved' = IF r.err = "ok"
                   THEN saved \cup {[id |-> r.id, table |-> "bills", data |-> bill_data]}
                   ELSE saved
       /\ written' = IF r.err = "ok"
                     THEN [id |-> r.id, table |-> "bills", name |-> "save_bill",
                           session |-> s, data |-> bill_data]
                     ELSE NoWrite
       /\ returned' = IF r.err = "ok"
                      THEN returned \cup {[id |-> r.id, table |-> "bills"]}
                      ELSE returned
       /\ conn' = [conn EXCEPT ![s] = Idle]
       /\ UNCHANGED now
       /\ UNCHANGED <<exportVars, shell>>

\* The INSERT INTO bills and bill_id = cursor.lastrowid.
save_bill_insert(s, bill_data) ==
    /\ conn[s].pc = "idle"
    /\ Locked(s) \/ Begun < MaxSaves
    /\ IF Locked(s)
       THEN Closed(s, bill_data,
                   [id |-> 0, tx |-> [db |-> db, seq |-> seq], err |-> "OperationalError"])
       ELSE LET r == Insert([db |-> db, seq |-> seq], "bills", BillVals(bill_data), now) IN
            IF r.err # "ok" THEN Closed(s, bill_data, r)
            ELSE /\ conn' = [conn EXCEPT ![s] =
                                [bill_id |-> r.id, tx |-> r.tx,
                                 deds |-> Get(bill_data, "deductions", <<>>),
                                 pc |-> "deductions",
                                 bill_data |-> bill_data]]
                 /\ UNCHANGED <<storeVars, exportVars, returned, shell>>

\* One turn of the loop over bill_data['deductions'].
save_bill_deduction(s) ==
    /\ conn[s].pc = "deductions"
    /\ conn[s].deds # <<>>
    /\ LET deduction == Head(conn[s].deds)
           r == IF ~({"type", "amount"} \subseteq DOMAIN deduction)
                THEN [id |-> 0, tx |-> conn[s].tx, err |-> "KeyError"]
                ELSE Insert(conn[s].tx, "deductions",
                            DeductionVals(conn[s].bill_id, deduction), now)
       IN IF r.err # "ok" THEN Closed(s, conn[s].bill_data, r)
          ELSE /\ conn' = [conn EXCEPT ![s].tx = r.tx, ![s].deds = Tail(@)]
               /\ UNCHANGED <<storeVars, exportVars, returned, shell>>

\* conn.commit() and return bill_id.
save_bill_commit(s) ==
    /\ conn[s].pc = "deductions"
    /\ conn[s].deds = <<>>
    /\ Closed(s, conn[s].bill_data,
              [id |-> conn[s].bill_id, tx |-> conn[s].tx, err |-> "ok"])

\* Overlapping save_bill calls of the sessions, and the reads of a session
\* that is in no call.
TxNext ==
    \/ \E s \in Sessions, d \in BillInputs : save_bill_insert(s, d)
    \/ \E s \in Sessions : save_bill_deduction(s)
    \/ \E s \in Sessions : save_bill_commit(s)
    \/ \E s \in Sessions, i \in RecordIds :
            conn[s].pc = "idle" /\ get_bill_with_deductions(s, i)
    \/ \E s \in Sessions : conn[s].pc = "idle" /\ get_records(s, "bills", Null)

TxSpec == Init /\ [][TxNext]_vars

(***************************************************************************)
(* Opening the store: DatabaseManager() and get_db_manager, among the      *)
(* writes of the sessions.                                                 *)
(***************************************************************************)
\* An init_database that creates every table anew.
init_database_Recreate(tx) ==
    [db |-> [t \in Tables |-> {}], seq |-> [t \in Tables |-> 0]]

\* Five times CREATE TABLE IF NOT EXISTS: a table the file has is left as it
\* is, rows and AUTOINCREMENT sequence included; one it lacks is created
\* empty.
init_database(tx) ==
    [db |-> [t \in Tables |-> IF t \in DOMAIN tx.db THEN tx.db[t] ELSE {}],
     seq |-> [t \in Tables |-> IF t \in DOMAIN tx.seq THEN tx.seq[t] ELSE 0]]

\* __init__ runs init_database in a connection of its own, which commits at
\* the end of the "with" block, and returns the manager.
DatabaseManager(s) ==
    LET old == [db |-> db, seq |-> seq]
        end == Commit(old, init_database(old))
    IN /\ ret' = [NoRet EXCEPT !.name = "__init__"]
       /\ db' = end.db
       /\ seq' = end.seq
       /\ written' = NoWrite
       /\ UNCHANGED <<now, saved>>
       /\ UNCHANGED <<exportVars, conn, returned, shell>>

\* get_db_manager constructs a manager, and so opens the store, at every call.
get_db_manager(s) == DatabaseManager(s)

OpenNext ==
    \/ \E s \in Sessions : get_db_manager(s)
    \/ \E s \in Sessions, d \in BillInputs : save_bill(s, d)
    \/ \E s \in Sessions, d \in EmdInputs : save_emd_refund(s, d)
    \/ \E s \in Sessions, d \in ProjectInputs : save_project(s, d)
    \/ \E s \in Sessions, i \in RecordIds, u \in UpdateInputs :
            update_record(s, u[1], i, u[2])
    \/ \E s \in Sessions, k \in Kinds, i \in RecordIds : delete_record(s, k, i)

OpenSpec == Init /\ [][OpenNext]_vars

(***************************************************************************)
(* The presentation shell (app.py).  Streamlit runs the script from top to *)
(* bottom once per page load and once per interaction with a widget; a     *)
(* button returns True only in the run its click started; st.rerun() ends  *)
(* the run where it stands and starts a new one in which no button is      *)
(* pressed.  An interaction is taken when no run is in progress.           *)
(***************************************************************************)
Categories == {"dashboard", "financial", "calculation", "reports"}

\* The four buttons of render_sidebar in the order the script tests them,
\* and the three "Access ..." buttons of render_dashboard.
SidebarButtons ==
    << [place |-> "sidebar", target |-> "financial"],
       [place |-> "sidebar", target |-> "calculation"],
       [place |-> "sidebar", target |-> "reports"],
       [place |-> "sidebar", target |-> "dashboard"] >>
DashboardButtons ==
    << [place |-> "dashboard", target |-> "financial"],
       [place |-> "dashboard", target |-> "calculation"],
       [place |-> "dashboard", target |-> "reports"] >>

\* The options of the selectbox of each category's view.
ToolOptions ==
    [financial |-> {"Select Tool", "Bill Note Sheet", "EMD Refund", "Security Refund",
                    "Financial Progress", "Hindi Bill Generator"},
     calculation |-> {"Select Tool", "Delay Calculator", "Stamp Duty Calculator",
                      "Deductions Table", "Excel EMD Processor"},
     reports |-> {"Select Tool", "Bill & Deviation Generator", "Financial Analysis"}]

\* What a tool's main() does to the run: it returns, it raises, or it asks
\* for a rerun itself.
ToolOutcomes == {"returns", "raises", "reruns"}

selected_category == shell.session_state["selected_category"]

\* A view that shows every category as the financial tools.
ContentView_Financial(category) == "financial"

\* main's if / elif / else over st.session_state.selected_category.
ContentView(category) ==
    IF category \in {"financial", "calculation", "reports"} THEN category
    ELSE "dashboard"

\* A rerun that returns to the script: the run goes on at `after`.
st_rerun_Returns(sh, after) == [sh EXCEPT !.pc = after]

\* st.rerun(): the run ends here; a new run starts from the top with the
\* session state kept and no button pressed.
st_rerun(sh, after) ==
    [sh EXCEPT !.pc = "main", !.pressed = NoButton, !.rendered = <<>>, !.completed = FALSE]

\* "if st.button(...):" of a category button b that is pressed:
\* selected_category = b's target, then st.rerun().
Pressed(sh, b, after) ==
    st_rerun([sh EXCEPT !.session_state = [selected_category |-> b.target],
                        !.previous = sh.session_state["selected_category"],
                        !.target = b.target],
             after)

Shell(sh) ==
    /\ shell' = sh
    /\ UNCHANGED <<storeVars, exportVars, conn, returned>>

\* A run starts: pressed is the button clicked, if one was.
Run(sh, b) ==
    Shell([sh EXCEPT !.pc = "main", !.pressed = b, !.rendered = <<>>, !.completed = FALSE])

\* The page is loaded, or loaded again, in the browser: a new session with
\* an empty st.session_state.
Load ==
    /\ shell.pc = "idle"
    /\ Run(NoShell, NoButton)

\* The user clicks a category button that the page shows.
Press(b) ==
    /\ shell.pc = "idle"
    /\ \E i \in 1..Len(shell.rendered) : shell.rendered[i] = b.place
    /\ Run(shell, b)

\* The user picks another option in the selectbox of the view shown.
Select(option) ==
    /\ shell.pc = "idle"
    /\ \E i \in 1..Len(shell.rendered) :
          /\ shell.rendered[i] \in DOMAIN ToolOptions
          /\ option \in ToolOptions[shell.rendered[i]]
    /\ option # shell.tool_option
    /\ Run([shell EXCEPT !.tool_option = option], NoButton)

\* main up to render_header: set_page_config and the default of
\* st.session_state.selected_category.
main ==
    /\ shell.pc = "main"
    /\ Shell([shell EXCEPT
                !.session_state = IF "selected_category" \in DOMAIN shell.session_state
                                  THEN @ ELSE [selected_category |-> "dashboard"],
                !.pc = "header"])

render_header ==
    /\ shell.pc = "header"
    /\ Shell([shell EXCEPT !.rendered = Append(@, "header"), !.pc = "sidebar"])

\* render_sidebar: the handler of the pressed sidebar button, if one is
\* pressed, ends the run.
render_sidebar ==
    /\ shell.pc = "sidebar"
    /\ LET shown == [shell EXCEPT !.rendered = Append(@, "sidebar")] IN
       Shell(IF \E i \in 1..Len(SidebarButtons) : SidebarButtons[i] = shell.pressed
             THEN Pressed(shown, shell.pressed, "content")
             ELSE [shown EXCEPT !.pc = "content"])

\* render_financial_tools, render_calculation_tools and render_report_tools
\* differ in the options only: the selectbox, then the main() of the tool
\* picked or the hint to pick one.  The selectbox of a view that was not
\* shown in the last run starts at its first option.
render_tools(category, outcome) ==
    /\ shell.pc = "content"
    /\ ContentView(selected_category) = category
    /\ LET tool_option == IF shell.tool_option \in ToolOptions[category]
                          THEN shell.tool_option ELSE "Select Tool"
           shown == [shell EXCEPT !.rendered = Append(@, category),
                                  !.tool_option = tool_option]
       IN /\ tool_option = "Select Tool" => outcome = "returns"
          /\ Shell(CASE outcome = "returns" -> [shown EXCEPT !.pc = "footer"]
                     [] outcome = "raises" -> [shown EXCEPT !.pc = "idle", !.pressed = NoButton]
                     [] outcome = "reruns" ->
                            [shown EXCEPT !.pc = "main", !.pressed = NoButton,
                                          !.rendered = <<>>])

render_financial_tools(outcome) == render_tools("financial", outcome)
render_calculation_tools(outcome) == render_tools("calculation", outcome)
render_report_tools(outcome) == render_tools("reports", outcome)

\* render_dashboard: the handler of the pressed "Access ..." button, if one
\* is pressed, ends the run.
render_dashboard ==
    /\ shell.pc = "content"
    /\ ContentView(selected_category) = "dashboard"
    /\ LET shown == [shell EXCEPT !.rendered = Append(@, "dashboard"),
                                  !.tool_option = "Select Tool"] IN
       Shell(IF \E i \in 1..Len(DashboardButtons) : DashboardButtons[i] = shell.pressed
             THEN Pressed(shown, shell.pressed, "footer")
             ELSE [shown EXCEPT !.pc = "footer"])

\* render_footer ends main: the run is complete.
render_footer ==
    /\ shell.pc = "footer"
    /\ Shell([shell EXCEPT !.rendered = Append(@, "footer"), !.pc = "idle",
                           !.pressed = NoButton, !.completed = TRUE])

ShellNext ==
    \/ Load
    \/ \E i \in 1..Len(SidebarButtons) : Press(SidebarButtons[i])
    \/ \E i \in 1..Len(DashboardButtons) : Press(DashboardButtons[i])
    \/ \E c \in DOMAIN ToolOptions : \E option \in ToolOptions[c] : Select(option)
    \/ main
    \/ render_header
    \/ render_sidebar
    \/ \E outcome \in ToolOutcomes : render_financial_tools(outcome)
    \/ \E outcome \in ToolOutcomes : render_calculation_tools(outcome)
    \/ \E outcome \in ToolOutcomes : render_report_tools(outcome)
    \/ render_dashboard
    \/ render_footer

ShellSpec == Init /\ [][ShellNext]_vars

(***************************************************************************)
(* Claims                                                                  *)
(***************************************************************************)
\* The step is a call of one of the named methods (every method records its
\* name in what it returns).
Called(names) == ret'.name \in names

ListNames == {"get_bills", "get_emd_refunds", "get_projects"}
SaveNames == {"save_bill", "save_emd_refund", "save_project"}

\* The row holds the field values of the accepted record e (the deductions of
\* a bill are no column of bills).
MatchesSaved(row, e) ==
    /\ row["id"] = IntVal(e.id)
    /\ \A f \in DOMAIN e.data \ {"deductions"} : PyEq(row[f], e.data[f])

\* C1: round trip.  Whenever a kind is listed with no limit, every record that
\* a save of that kind accepted earlier (and no update or delete touched since)
\* is in the result with the field values it was saved with, whatever other
\* saves came in between.
C1_RoundTrip ==
    [][Called(ListNames) =>
          \A s \in Sessions, k \in Kinds :
              get_records(s, k, Null) =>
                  \A e \in saved : e.table = k =>
                      \E i \in 1..Len(ret'.rows) : MatchesSaved(ret'.rows[i], e)]_vars

\* Two bills were saved and get_bills has listed both.
C1_Witness ==
    /\ ret.name = "get_bills"
    /\ Len(ret.rows) = 2
    /\ Cardinality({e \in saved : e.table = "bills"}) = 2

\* C2 as claimed: an unlimited listing is newest first, that is, of any two
\* rows listed the one saved later (the one with the larger generated id)
\* comes first, also when both were saved within the same second.
C2_NewestFirst ==
    [][Called(ListNames) =>
          \A s \in Sessions, k \in Kinds :
              get_records(s, k, Null) =>
                  \A i, j \in 1..Len(ret'.rows) :
                      i < j => ret'.rows[i].id.n > ret'.rows[j].id.n]_vars

\* C3: every deduction row a step creates carries the id of a bill row that
\* the same step inserted, that step is a save_bill, and the id is the one it
\* returns.
C3_DeductionOwner ==
    [][\A d \in db'["deductions"] \ db["deductions"] :
          /\ ret'.name = "save_bill"
          /\ d["bill_id"] = IntVal(ret'.id)
          /\ \E b \in db'["bills"] \ db["bills"] : b["id"] = d["bill_id"]]_vars

\* save_bill has just stored a bill together with two deductions.
C3_Witness ==
    /\ ret.name = "save_bill"
    /\ ret.err = "ok"
    /\ Cardinality({d \in db["deductions"] : d["bill_id"] = IntVal(ret.id)}) = 2

\* The deductions that reference bill i.
DeductionsOf(d, i) == {x \in d["deductions"] : x["bill_id"] = IntVal(i)}

Range(q) == {q[i] : i \in 1..Len(q)}

\* C4: deleting a bill leaves the deductions table as it was, and a
\* get_bill_with_deductions for the deleted id that follows returns no bill
\* row and all the deductions that reference the id.
C4_DeleteKeepsDeductions ==
    [][Called({"delete_record", "get_bill_with_deductions"}) =>
          \A s \in Sessions, i \in RecordIds :
              /\ delete_record(s, "bills", i) => db'["deductions"] = db["deductions"]
              /\ (/\ written.name = "delete_record"
                  /\ written.table = "bills"
                  /\ written.id = i
                  /\ get_bill_with_deductions(s, i))
                 => /\ ret'.rows = <<>>
                    /\ Range(ret'.deds) = DeductionsOf(db, i)
                    /\ Len(ret'.deds) = Cardinality(DeductionsOf(db, i))]_vars

\* A bill with deductions was deleted and then read back by id: no bill row,
\* two deductions.
C4_Witness ==
    /\ ret.name = "get_bill_with_deductions"
    /\ ret.rows = <<>>
    /\ Len(ret.deds) = 2
    /\ \A d \in Range(ret.deds) : d["bill_id"].n \notin Ids(db["bills"])

\* C5 as claimed: every stored row of every table has a non-null id that no
\* other row of its table has, and a non-null creation timestamp.
C5_IdAndTimestamp ==
    \A t \in Tables : \A r \in db[t] :
        /\ r["id"] # Null
        /\ r["created_at"] # Null
        /\ \A o \in db[t] : o["id"] = r["id"] => o = r

\* C6 as claimed: update_record returns a boolean for every map from columns
\* of the table to values, the empty one included; TRUE exactly when the table holds a row with the
\* id, and then that row has the new values in the named columns and its old
\* values in the others; FALSE otherwise, and then the file is unchanged.
C6_UpdateContract ==
    [][Called({"update_record"}) =>
          \A s \in Sessions, i \in RecordIds, u \in UpdateInputs :
              (update_record(s, u[1], i, u[2]) /\ DOMAIN u[2] \subseteq Columns(u[1])) =>
                  /\ ret'.err = "ok"
                  /\ ret'.ok = (i \in Ids(db[u[1]]))
                  /\ ret'.ok =>
                        \E old \in db[u[1]], new \in db'[u[1]] :
                            /\ old.id.n = i
                            /\ \A c \in Columns(u[1]) :
                                  IF c \in DOMAIN u[2] THEN PyEq(new[c], u[2][c])
                                  ELSE new[c] = old[c]
                            /\ db' = [db EXCEPT ![u[1]] = (@ \ {old}) \cup {new}]
                  /\ ~ret'.ok => db' = db]_vars

\* C7: delete_record returns TRUE exactly when the table held a row with the
\* id; afterwards the table holds its other rows and no row with the id, the
\* other tables are unchanged, a listing of the table that follows shows no
\* row with the id, and a second delete of the id that follows returns FALSE.
C7_DeleteContract ==
    [][/\ Called({"delete_record"}) =>
             \A s \in Sessions, k \in Kinds, i \in RecordIds :
                 delete_record(s, k, i) =>
                     /\ ret'.err = "ok"
                     /\ ret'.ok = (i \in Ids(db[k]))
                     /\ db'[k] = {r \in db[k] : r.id.n # i}
                     /\ \A o \in Tables \ {k} : db'[o] = db[o]
       /\ (written.name = "delete_record" /\ Called({"delete_record"} \cup ListNames)) =>
             \A s \in Sessions :
                 /\ delete_record(s, written.table, written.id) => ~ret'.ok
                 /\ \A l \in Limits :
                       get_records(s, written.table, l) =>
                           \A j \in 1..Len(ret'.rows) : ret'.rows[j].id.n # written.id]_vars

\* A delete has just removed one of two rows of a table.
C7_Witness ==
    /\ ret.name = "delete_record"
    /\ ret.ok
    /\ written.name = "delete_record"
    /\ db[written.table] # {}

\* The sum of a column over rows, a NULL counting as nothing, taken id by id.
RECURSIVE AmountOfIds(_, _, _)
AmountOfIds(rows, col, ids) ==
    IF ids = {} THEN 0
    ELSE LET i == Max(ids)
             r == CHOOSE x \in rows : x.id.n = i
         IN (IF r[col] = Null THEN 0 ELSE r[col].n) + AmountOfIds(rows, col, ids \ {i})

\* C8: what get_statistics returns agrees with the file: the four row counts,
\* the sum of bill_amount over the bills whose status is 'Active', the sum of
\* emd_amount over all EMD refunds, each sum 0 when no row qualifies; and a
\* bill saved without a status is among the bills whose status is 'Active'.
C8_Statistics ==
    ret.name = "get_statistics" =>
        LET active == {r \in db["bills"] : r["status"] = TextVal("Active")} IN
        /\ ret.stats.total_bills = IntVal(Cardinality(db["bills"]))
        /\ ret.stats.total_emd_refunds = IntVal(Cardinality(db["emd_refunds"]))
        /\ ret.stats.total_projects = IntVal(Cardinality(db["projects"]))
        /\ ret.stats.total_deductions = IntVal(Cardinality(db["deductions"]))
        /\ PyEq(ret.stats.total_active_bills_amount,
                IntVal(AmountOfIds(active, "bill_amount", Ids(active))))
        /\ PyEq(ret.stats.total_emd_amount,
                IntVal(AmountOfIds(db["emd_refunds"], "emd_amount", Ids(db["emd_refunds"]))))
        /\ active = {} => ret.stats.total_active_bills_amount = IntVal(0)
        /\ db["emd_refunds"] = {} => ret.stats.total_emd_amount = IntVal(0)
        /\ \A e \in saved :
              (e.table = "bills" /\ "status" \notin DOMAIN e.data) =>
                  \E r \in active : r["id"] = IntVal(e.id)

\* get_statistics has run on a file with a paid bill and a bill that was
\* saved without a status.
C8_Witness ==
    /\ ret.name = "get_statistics"
    /\ \E r \in db["bills"] : r["status"] = TextVal("Paid")
    /\ \E e \in saved : e.table = "bills" /\ "status" \notin DOMAIN e.data

\* The rows of a listing show the effect of the write w.
Visible(w, rows) ==
    CASE w.name \in {"save_bill", "save_emd_refund", "save_project"} ->
            \E j \in 1..Len(rows) : MatchesSaved(rows[j], w)
      [] w.name = "update_record" ->
            \E j \in 1..Len(rows) :
                /\ rows[j]["id"] = IntVal(w.id)
                /\ \A c \in DOMAIN w.data : PyEq(rows[j][c], w.data[c])
      [] w.name = "delete_record" ->
            \A j \in 1..Len(rows) : rows[j]["id"] # IntVal(w.id)

\* C9: once a save, update or delete has returned, a read that follows it,
\* through the session that wrote or through any other, shows its effect: the
\* unlimited listing of the table shows the new row, the new values or no row
\* with the deleted id, and get_bill_with_deductions shows a saved bill with
\* all its deductions.
C9_Durable ==
    [][(written # NoWrite /\ Called(ListNames \cup {"get_bill_with_deductions"})) =>
          \A t \in Sessions :
              /\ get_records(t, written.table, Null) => Visible(written, ret'.rows)
              /\ (written.name = "save_bill" /\ get_bill_with_deductions(t, written.id)) =>
                    /\ Len(ret'.rows) = 1
                    /\ MatchesSaved(ret'.rows[1], written)
                    /\ Len(ret'.deds) = Len(Get(written.data, "deductions", <<>>))]_vars

\* Session s2 has just updated a row: every session can now read it.
C9_Witness ==
    /\ written.name = "update_record"
    /\ written.session = "s2"
    /\ ret.ok

\* The save method, the inputs and the identifying column of each kind.
SaveOf(k, s, d) ==
    CASE k = "bills" -> save_bill(s, d)
      [] k = "emd_refunds" -> save_emd_refund(s, d)
      [] k = "projects" -> save_project(s, d)

InputsOf(k) ==
    CASE k = "bills" -> BillInputs
      [] k = "emd_refunds" -> EmdInputs
      [] k = "projects" -> ProjectInputs

Identifier(k) ==
    CASE k = "bills" -> "bill_number"
      [] k = "emd_refunds" -> "tender_number"
      [] k = "projects" -> "project_name"

\* C10 as claimed: a save of a record that lacks the identifying field of its
\* kind succeeds, returns a new id and stores a row whose missing fields are
\* null.
C10_InsertsWithNulls ==
    [][Called(SaveNames) =>
          \A s \in Sessions, k \in Kinds : \A d \in InputsOf(k) :
              (SaveOf(k, s, d) /\ Identifier(k) \notin DOMAIN d) =>
                  /\ ret'.err = "ok"
                  /\ ret'.id \notin Ids(db[k])
                  /\ \E r \in db'[k] :
                        /\ r["id"] = IntVal(ret'.id)
                        /\ r[Identifier(k)] = Null]_vars

\* C10 as amended: a save of a record that lacks the identifying field of its
\* kind raises IntegrityError, returns no id and leaves the file as it was; a
\* save of a record that has it stores a row with a new id whose other
\* missing fields, the status apart, are null.
C10_IdentifierRequired ==
    [][Called(SaveNames) =>
          \A s \in Sessions, k \in Kinds : \A d \in InputsOf(k) :
              SaveOf(k, s, d) =>
                  IF Identifier(k) \notin DOMAIN d
                  THEN /\ ret'.err = "IntegrityError"
                       /\ ret'.id = 0
                       /\ db' = db
                       /\ seq' = seq
                  ELSE ret'.err = "ok" =>
                       /\ ret'.id \notin Ids(db[k])
                       /\ \E r \in db'[k] :
                             /\ r["id"] = IntVal(ret'.id)
                             /\ \A c \in Columns(k) \ {"id", "created_at", "status"} :
                                   c \notin DOMAIN d => r[c] = Null]_vars

\* A save without the identifying field has just been refused while the file
\* holds a row that was saved with fields missing.
C10_Witness ==
    /\ ret.name \in {"save_bill", "save_emd_refund", "save_project"}
    /\ ret.err = "IntegrityError"
    /\ \E r \in db["bills"] : r["bill_date"] = Null

\* C11: an update_record or a delete_record on a table the file does not have
\* ends in sqlite3.OperationalError raised to the caller; the method makes
\* the one attempt, returns no boolean, and the file (every table, and the id
\* counters) is as it was before the call.
C11_MissingTable ==
    [][Called({"update_record", "delete_record"}) =>
          \A s \in Sessions, t \in MissingTables :
              (\/ delete_record(s, t, 1)
               \/ update_record(s, t, 1, [status |-> TextVal("Paid")]))
              => /\ ret'.err = "OperationalError"
                 /\ ~ret'.ok
                 /\ written' = NoWrite
                 /\ db' = db
                 /\ seq' = seq]_vars

\* A delete on a missing table has just failed while the file holds a bill
\* and its deductions.
C11_Witness ==
    /\ ret.name = "delete_record"
    /\ ret.err = "OperationalError"
    /\ db["bills"] # {}
    /\ db["deductions"] # {}

\* A string with its ASCII letters in upper case.
RECURSIVE Upper(_)
Upper(str) ==
    IF str = "" THEN "" ELSE Fold(SubSeq(str, 1, 1)) \o Upper(SubSeq(str, 2, Len(str)))

\* The stored value is a text that holds the term, letter case ignored.
HoldsTerm(v, term) == v.t = "text" /\ Contains(Upper(v.s), Upper(term))

\* The term has none of LIKE's wildcard characters.
NoWildcard(term) == ~Contains(term, "%") /\ ~Contains(term, "_")

\* C12 as claimed: a search of bills restricted to contractor_name returns
\* exactly the bills whose contractor_name holds the term in the very letter
\* case of the term.
C12_CaseSensitive ==
    [][Called({"search_records"}) =>
          \A s \in Sessions, term \in SearchTerms :
              search_records(s, "bills", term, <<"contractor_name">>) =>
                  /\ ret'.err = "ok"
                  /\ Range(ret'.rows) =
                        {r \in db["bills"] :
                            /\ r["contractor_name"].t = "text"
                            /\ Contains(r["contractor_name"].s, term)}]_vars

\* C12 as amended: a search of bills restricted to contractor_name returns,
\* each once, every bill whose contractor_name holds the term when the case
\* of ASCII letters is ignored, and, for a term without '%' and '_', no
\* other bill.
C12_CaseInsensitive ==
    [][Called({"search_records"}) =>
          \A s \in Sessions, term \in SearchTerms :
              search_records(s, "bills", term, <<"contractor_name">>) =>
                  LET holding == {r \in db["bills"] : HoldsTerm(r["contractor_name"], term)} IN
                  /\ ret'.err = "ok"
                  /\ holding \subseteq Range(ret'.rows)
                  /\ NoWildcard(term) => Range(ret'.rows) = holding
                  /\ Len(ret'.rows) = Cardinality(Range(ret'.rows))]_vars

\* A search has returned the bill of 'abc traders' and not the other bill
\* of the table, the one of 'XYZ Builders': the term was 'ABC' or 'abc'.
C12_Witness ==
    /\ ret.name = "search_records"
    /\ Len(ret.rows) = 1
    /\ ret.rows[1]["contractor_name"] = TextVal("abc traders")
    /\ \E r \in db["bills"] : r["contractor_name"] = TextVal("XYZ Builders")

\* C13 as claimed: a search with no explicit columns returns exactly the rows
\* of the table in which one of the table's default columns holds the term
\* (letter case ignored, as LIKE does), whatever characters the term has; for
\* a table with no default columns the result is empty.
C13_LiteralSubstring ==
    [][Called({"search_records"}) =>
          \A s \in Sessions, t \in Tables \cup MissingTables, term \in SearchTerms :
              search_records(s, t, term, <<>>) =>
                  /\ ret'.err = "ok"
                  /\ IF t \in DOMAIN search_columns
                     THEN Range(ret'.rows) =
                            {r \in db[t] :
                                \E i \in 1..Len(search_columns[t]) :
                                    HoldsTerm(r[search_columns[t][i]], term)}
                     ELSE ret'.rows = <<>>]_vars

\* The step is a call of one of the named exporter or import functions.
Exports(names) == out'.name \in names

\* The three renderers of a bill.
BillRenderers == {"create_bill_pdf", "create_bill_excel", "generate_text_bill_report"}

\* The step renders bill_data with one of them.
RendersBill(bill_data) ==
    \/ create_bill_pdf(bill_data)
    \/ create_bill_excel(bill_data)
    \/ generate_text_bill_report(bill_data)

\* The sum of the amounts of the deductions i..Len, a deduction without an
\* amount counting as nothing.
RECURSIVE AmountsFrom(_, _)
AmountsFrom(deductions, i) ==
    IF i > Len(deductions) THEN 0
    ELSE (IF "amount" \in DOMAIN deductions[i] THEN deductions[i]["amount"].n ELSE 0)
            + AmountsFrom(deductions, i + 1)

\* C14: whatever bill is rendered, by create_bill_pdf, by create_bill_excel in
\* its formatted or its basic branch, or by generate_text_bill_report, a
\* rendering that is produced shows as total deductions the sum of the
\* deduction amounts and as net payable the bill amount less that sum; with
\* no deductions key or an empty list the total shown is 0.00 and the net
\* shown is the bill amount shown; the total row of the PDF's deductions
\* table shows the same sum.  (Every renderer shows the same function of the
\* bill, so all agree.)
C14_NetPayable ==
    [][(Exports(BillRenderers) /\ out'.err = "ok") =>
          \A bill_data \in RenderBills :
              RendersBill(bill_data) =>
                  LET deductions == IF "deductions" \in DOMAIN bill_data
                                    THEN bill_data["deductions"] ELSE <<>>
                      base == IF "bill_amount" \in DOMAIN bill_data
                              THEN bill_data["bill_amount"].n ELSE 0
                      total == AmountsFrom(deductions, 1)
                  IN /\ out'.doc.total_deductions = Format2f(total)
                     /\ out'.doc.net_amount = Format2f(base - total)
                     /\ (out'.name = "create_bill_pdf" /\ deductions # <<>>) =>
                            out'.doc.deductions_table_total = Format2f(total)
                     /\ deductions = <<>> =>
                            /\ out'.doc.total_deductions = "0.00"
                            /\ out'.doc.net_amount = out'.doc.bill_amount]_vars

\* The basic branch of create_bill_excel has written the summary of the
\* sample bill: 500,000.00 less 30,000.00 is 470,000.00.
C14_Witness ==
    /\ out.name = "create_bill_excel"
    /\ out.err = "ok"
    /\ out.branch = "basic"
    /\ out.doc.bill_amount = "500,000.00"
    /\ out.doc.total_deductions = "30,000.00"
    /\ out.doc.net_amount = "470,000.00"

\* C15 as claimed: in every rendering of a bill a deduction counts with its
\* amount if it has one and with rate x bill amount / 100 if it carries a
\* rate only, in the total deductions and in the net payable.
C15_RateOnlyDeduction ==
    [][(Exports(BillRenderers) /\ out'.err = "ok") =>
          \A bill_data \in RenderBills :
              RendersBill(bill_data) =>
                  LET deductions == IF "deductions" \in DOMAIN bill_data
                                    THEN bill_data["deductions"] ELSE <<>>
                      base == IF "bill_amount" \in DOMAIN bill_data
                              THEN bill_data["bill_amount"].n ELSE 0
                      amount(d) == IF "amount" \in DOMAIN d THEN d["amount"].n
                                   ELSE IF "rate" \in DOMAIN d
                                   THEN (d["rate"].n * base) \div 100
                                   ELSE 0
                      total == SumAmounts([i \in 1..Len(deductions) |->
                                              [amount |-> IntVal(amount(deductions[i]))]])
                  IN /\ out'.doc.total_deductions = Format2f(total)
                     /\ out'.doc.net_amount = Format2f(base - total)]_vars

\* C16: whatever principal P, rate R and dates the deposit-interest routine
\* is given, with D = refundDate - depositDate in days: when D >= 0 the
\* interest is P x R/100 x D/365 and the refund is P + interest; when D < 0
\* the refund is P.  The amounts are compared in units of 1/36500 rupee, in
\* which they are whole numbers: interest P x R x D, refund 36500 x P + that.
C16_DepositInterest ==
    out.name = "emd_refund" =>
        LET P == out.doc.emd_amount.n
            R == out.doc.interest_rate.n
            D == DayNumber(out.doc.refund_date.s) - DayNumber(out.doc.deposit_date.s)
            i == out.doc.interest_amount
            total == out.doc.total_refund
        IN /\ i.d = 36500
           /\ total.d = 36500
           /\ IF D >= 0
              THEN /\ i.n = P * R * D
                   /\ total.n = P * 36500 + i.n
              ELSE total.n = P * 36500

\* The routine has run on the scenario of the specification: 50000 at 6% for
\* the 31 days from 2024-01-10 to 2024-02-10 gives 254.79 of interest and a
\* refund of 50254.79; and it can run on dates in the wrong order.
C16_Witness ==
    /\ out.name = "emd_refund"
    /\ out.doc.emd_amount = IntVal(50000)
    /\ out.doc.interest_rate = IntVal(6)
    /\ out.doc.days_held = IntVal(31)
    /\ FormatRatio(out.doc.interest_amount.n, out.doc.interest_amount.d) = "254.79"
    /\ FormatRatio(out.doc.total_refund.n, out.doc.total_refund.d) = "50,254.79"
    /\ DayNumber("2024-01-10") < DayNumber("2024-02-10")

\* C17: every row of emd_refunds satisfies refund_amount = emd_amount + the
\* simple interest on emd_amount at interest_rate per cent a year over the
\* days from deposit_date to refund_date (compared in units of 1/36500 of a
\* rupee, so that nothing is rounded).
C17_RefundAmount ==
    \A row \in db["emd_refunds"] :
        /\ row.refund_amount.t \in {"int", "real"}
        /\ row.emd_amount.t \in {"int", "real"}
        /\ row.interest_rate.t \in {"int", "real"}
        /\ row.deposit_date.t = "text"
        /\ row.refund_date.t = "text"
        /\ row.refund_amount.n * (100 * 365)
              = row.emd_amount.n * (100 * 365)
                + row.emd_amount.n * row.interest_rate.n
                    * daysHeld(row.deposit_date.s, row.refund_date.s)

\* The render methods of the exporter and the plain-text renderings.
PdfRenders == {"create_bill_pdf", "create_emd_refund_pdf", "create_project_report_pdf"}
TextRenders == {"generate_text_bill_report", "generate_text_emd_report"}

\* C18 as stated: with reportlab unavailable, get_pdf_generator succeeds, each
\* render method of the exporter it returns comes back without raising, and
\* the plain-text renderings produce a report.
C18_SentinelReturned ==
    ~REPORTLAB_AVAILABLE =>
        /\ out.name = "get_pdf_generator" => out.err = "ok"
        /\ out.name \in PdfRenders => out.err = "ok"
        /\ out.name \in TextRenders => out.err = "ok" /\ "doc" \in DOMAIN out

\* C18: with reportlab unavailable, get_pdf_generator succeeds and returns the
\* fallback exporter, whose available flag is false; each render method of
\* that exporter raises NotImplementedError and produces no document; the
\* plain-text renderings, which need no exporter, still produce a report.
C18_FallbackRaises ==
    ~REPORTLAB_AVAILABLE =>
        /\ out.name = "get_pdf_generator" =>
              /\ out.err = "ok"
              /\ generator = [class |-> "PDFGeneratorFallback", available |-> FALSE]
        /\ out.name \in PdfRenders =>
              /\ out.err = "NotImplementedError"
              /\ "doc" \notin DOMAIN out
              /\ generator = [class |-> "PDFGeneratorFallback", available |-> FALSE]
        /\ out.name \in TextRenders => out.err = "ok" /\ "doc" \in DOMAIN out

\* create_bill_pdf of the fallback exporter has just raised.
C18_Witness ==
    /\ ~REPORTLAB_AVAILABLE
    /\ generator.class = "PDFGeneratorFallback"
    /\ out.name = "create_bill_pdf"
    /\ out.err = "NotImplementedError"

\* The required names, normalised, that no label of df matches when letter
\* case is ignored and a space counts as an underscore.
Lacking(df, required_columns) ==
    {Normalised(required_columns[k]) : k \in 1..Len(required_columns)}
    \ {Normalised(df.columns[i].s) :
          i \in {j \in 1..Len(df.columns) : df.columns[j].t = "text"}}

\* C19: process_emd_excel never raises and returns exactly one of (data,
\* None) and (None, message); for a table that lacks required columns it
\* returns (None, a message that names every missing column), and
\* validate_excel_structure returns, without raising, a non-empty error list
\* that names every missing column.
C19_MissingColumnsNamed ==
    /\ out.name = "process_emd_excel" =>
          /\ out.err = "ok"
          /\ (out.data = Null) # (out.message = Null)
          /\ (out.df # Null /\ Lacking(out.df, expected_columns) # {}) =>
                /\ out.data = Null
                /\ out.message # Null
                /\ \A col \in Lacking(out.df, expected_columns) :
                      Contains(out.message.s, col)
    /\ (out.name = "validate_excel_structure"
          /\ Lacking(out.df, out.required_columns) # {}) =>
          /\ out.err = "ok"
          /\ out.errors # <<>>
          /\ \A col \in Lacking(out.df, out.required_columns) :
                \E k \in 1..Len(out.errors) : Contains(out.errors[k], col)

\* C20: a table whose labels are the five expected names up to letter case
\* and spaces for underscores is accepted by process_emd_excel: it returns
\* no message and the rows it returns for the same table labelled
\* tender_number, contractor_name, emd_amount, deposit_date, status.
C20_HeadersMatched ==
    (/\ out.name = "process_emd_excel"
     /\ out.df # Null
     /\ Len(out.df.columns) = Len(expected_columns)
     /\ \A i \in 1..Len(expected_columns) :
           /\ out.df.columns[i].t = "text"
           /\ Normalised(out.df.columns[i].s) = expected_columns[i])
    => LET plain == ProcessedEmd([out.df EXCEPT !.columns = Labels(expected_columns)])
       IN /\ out.message = Null
          /\ out.data # Null
          /\ plain.data # Null
          /\ out.data.rows = plain.data.rows


\* C21: when a row of the uploaded sheet holds an emd_amount that is no
\* number, process_emd_excel returns no rows at all, and a message.
C21_NonNumericAborts ==
    (/\ out.name = "process_emd_excel"
     /\ out.df # Null
     /\ \E i \in Labelled(out.df, "emd_amount"), r \in 1..Len(out.df.rows) :
           /\ out.df.rows[r][i].t = "text"
           /\ ~IsDigits(out.df.rows[r][i].s))
    => /\ out.data = Null
       /\ out.message # Null


\* The bill has a list under key that is not empty.
HasList(bill_data, key) == key \in DOMAIN bill_data /\ bill_data[key] # <<>>

Supplied(e) == Len(Get(e.data, "deductions", <<>>))

\* C23: when a statement of save_bill fails after the bill row was inserted
\* (a deduction with no 'type' or no 'amount'), the call raises the error to
\* its caller and the file is as it was before the call: it holds neither
\* the bill row nor any deduction row of the call.  Every bill row in the
\* file belongs to a call that returned, and has all the deductions of that
\* call; a get_bill_with_deductions that finds a bill, at whatever point of
\* another session's save_bill it runs, returns the bill with all of them.
C23_AllOrNothing ==
    [][/\ \A s \in Sessions :
            (conn[s].pc = "deductions" /\ conn[s].deds # <<>> /\ conn'[s].pc = "idle") =>
                /\ ret'.name = "save_bill"
                /\ ret'.err \in {"KeyError", "IntegrityError"}
                /\ db' = db
                /\ seq' = seq
                /\ \A b \in db'["bills"] : b["id"] # IntVal(conn[s].bill_id)
                /\ DeductionsOf(db', conn[s].bill_id) = {}
       /\ \A b \in db'["bills"] :
            \E e \in saved' :
                /\ e.table = "bills"
                /\ b["id"] = IntVal(e.id)
                /\ Cardinality(DeductionsOf(db', e.id)) = Supplied(e)
       /\ Called({"get_bill_with_deductions"}) =>
            \A s \in Sessions, i \in RecordIds :
                (get_bill_with_deductions(s, i) /\ ret'.rows # <<>>) =>
                    \E e \in saved :
                        /\ e.table = "bills"
                        /\ e.id = i
                        /\ Len(ret'.deds) = Supplied(e)]_vars

\* A save_bill has failed on its second deduction, after its bill row and
\* its first deduction were inserted, while the file holds an earlier bill.
C23_Witness ==
    /\ ret.name = "save_bill"
    /\ ret.err = "KeyError"
    /\ db["bills"] # {}
    /\ \A s \in Sessions : conn[s].pc = "idle"


\* C24: however the statements of the sessions' save_bill calls interleave,
\* a call that returns an id returns one that no save_bill returned before;
\* the rows it adds are its bill row, carrying that id and the fields of its
\* record, and one deduction row per deduction it supplied, each carrying
\* that id; it removes and changes no row, and afterwards every bill any call
\* has returned is in the file with exactly its own deductions.  (A call that
\* finds the file locked for the whole timeout raises OperationalError and
\* adds nothing.)
C24_ConcurrentSaves ==
    [][\A s \in Sessions :
          (conn[s].pc = "deductions" /\ conn[s].deds = <<>> /\ conn'[s].pc = "idle") =>
              LET supplied == Get(conn[s].bill_data, "deductions", <<>>)
                  bills == db'["bills"] \ db["bills"]
                  deductions == db'["deductions"] \ db["deductions"]
              IN /\ ret'.name = "save_bill"
                 /\ ret'.err = "ok"
                 /\ ret'.id = conn[s].bill_id
                 /\ [id |-> ret'.id, table |-> "bills"] \notin returned
                 /\ db["bills"] \subseteq db'["bills"]
                 /\ db["deductions"] \subseteq db'["deductions"]
                 /\ Cardinality(bills) = 1
                 /\ \A b \in bills :
                       MatchesSaved(b, [id |-> ret'.id, data |-> conn[s].bill_data])
                 /\ Cardinality(deductions) = Len(supplied)
                 /\ \A d \in deductions : d["bill_id"] = IntVal(ret'.id)
                 /\ \A k \in 1..Len(supplied) :
                       \E d \in deductions :
                           /\ d["deduction_type"] = supplied[k]["type"]
                           /\ PyEq(d["amount"], supplied[k]["amount"])
                 /\ \A e \in saved' :
                       /\ \E b \in db'["bills"] : MatchesSaved(b, e)
                       /\ Cardinality(DeductionsOf(db', e.id)) = Supplied(e)]_vars

\* While session s1 is between the statements of a save_bill with
\* deductions, a save_bill of session s2 has found the file locked; the
\* file holds a bill committed earlier.
C24_Witness ==
    /\ conn["s1"].pc = "deductions"
    /\ conn["s1"].deds # <<>>
    /\ ret.name = "save_bill"
    /\ ret.err = "OperationalError"
    /\ db["bills"] # {}


\* C25: identifiers of bills are never reused.  Every save_bill that
\* returns, returns an id strictly greater than every id a save_bill
\* returned before, also after the bill with the highest id has been
\* deleted; and no deduction already in the file, orphaned or not, carries
\* the new bill's id.
C25_IdsNeverReused ==
    [][Called({"save_bill"}) =>
          \A s \in Sessions, bill_data \in BillInputs :
              (save_bill(s, bill_data) /\ ret'.err = "ok") =>
                  /\ \A e \in returned : e.table = "bills" => ret'.id > e.id
                  /\ \A d \in db["deductions"] : d["bill_id"] # IntVal(ret'.id)
                  /\ \A b \in db["bills"] : b.id.n # ret'.id]_vars

\* A save_bill has returned after the only bill, the one with the highest
\* id, was deleted and left its deductions behind.
C25_Witness ==
    /\ ret.name = "save_bill"
    /\ ret.err = "ok"
    /\ ret.id = 2
    /\ [id |-> 1, table |-> "bills"] \in returned
    /\ ~\E b \in db["bills"] : b.id.n = 1
    /\ \E d \in db["deductions"] : d["bill_id"] = IntVal(1)


\* C28 as claimed: a listing with limit n >= 0 of a kind holding N records
\* returns exactly min(n, N) records, the first min(n, N) of a newest-first
\* listing of the kind, so none for the limit 0; a listing without limit
\* returns all N.
C28_ListLimit ==
    [][Called(ListNames) =>
          \A s \in Sessions, k \in Kinds, l \in Limits :
              get_records(s, k, l) =>
                  LET N == Cardinality(db[k])
                      want == IF l = Null THEN N ELSE Min(l.n, N)
                  IN /\ Len(ret'.rows) = want
                     /\ \E q \in OrderByCreatedAtDesc(db[k]) :
                            ret'.rows = SubSeq(q, 1, want)]_vars


\* C29: opening the store is idempotent.  Whenever a DatabaseManager is
\* constructed on the file, whatever saves, updates, deletes and earlier
\* openings came before, every table holds after it exactly the rows it held
\* before it, no row is created, and the ids handed out so far stay handed
\* out.
C29_OpenIdempotent ==
    [][Called({"__init__"}) =>
          \A s \in Sessions :
              get_db_manager(s) =>
                  /\ \A t \in Tables : db'[t] = db[t]
                  /\ seq' = seq
                  /\ saved' = saved]_vars

\* The store has been opened again on a file that holds a bill saved after
\* an earlier bill was deleted, together with deductions.
C29_Witness ==
    /\ ret.name = "__init__"
    /\ seq["bills"] = 2
    /\ Cardinality(db["bills"]) = 1
    /\ db["deductions"] # {}
    /\ written = NoWrite


\* C30 as claimed: the workbook create_emd_template returns, uploaded
\* unchanged, is accepted by process_emd_excel, which returns both sample
\* rows and no message; and the columns its instructions call required are,
\* in the spelling process_emd_excel compares, exactly the columns
\* process_emd_excel requires.
C30_TemplateRoundTrip ==
    [][(/\ out.name = "create_emd_template"
        /\ out.err = "ok"
        /\ Exports({"process_emd_excel"})
        /\ process_emd_excel(Uploaded(out))
        /\ out'.df # Null)
       => /\ out'.message = Null
          /\ out'.data # Null
          /\ Len(out'.data.rows) = Len(TemplateRows)
          /\ \A r \in 1..Len(TemplateRows) :
                 out'.data.rows[r][1] = TemplateRows[r][1]
          /\ {Normalised(c) : c \in Range(out.doc["Instructions"])}
                 = Range(expected_columns)]_vars


\* The content view that belongs to a selected category, and what a run has
\* rendered in the main area of the page.
ViewOf(category) ==
    CASE category = "financial" -> "financial"
      [] category = "calculation" -> "calculation"
      [] category = "reports" -> "reports"
      [] OTHER -> "dashboard"
MainArea(rendered) == SelectSeq(rendered, LAMBDA part : part # "sidebar")

\* C26: the selected category is 'dashboard' until a button has been
\* handled and is always one of dashboard, financial, calculation, reports;
\* a run that has completed has rendered the header, exactly one content
\* view, the one of the selected category, and the footer, in that order.
C26_OneViewPerCycle ==
    /\ "selected_category" \in DOMAIN shell.session_state =>
          /\ selected_category \in Categories
          /\ shell.target = "" => selected_category = "dashboard"
    /\ shell.completed =>
          MainArea(shell.rendered) = << "header", ViewOf(selected_category), "footer" >>

\* A run has completed with the report tools as its one content view.
C26_Witness ==
    /\ shell.completed
    /\ shell.pc = "idle"
    /\ shell.rendered = << "header", "sidebar", "reports", "footer" >>

\* The step runs the handler of the button whose click started the run.
Handles ==
    \/ shell.pc = "sidebar" /\ shell.pressed.place = "sidebar"
    \/ shell.pc = "content" /\ shell.pressed.place = "dashboard"

\* C27: the handler of a pressed category button sets the selected category
\* to the button's target and ends the run there, before its footer; the
\* content view of every later run is the one of the target of the button
\* handled last, whatever was selected before; and no step but a handler
\* (or loading the page anew) changes the selection.
C27_PressSelects ==
    [][/\ Handles =>
            /\ shell'.session_state = [selected_category |-> shell.pressed.target]
            /\ shell'.pc = "main"
            /\ shell'.pressed = NoButton
            /\ ~shell'.completed
            /\ \A i \in 1..Len(shell.rendered) : shell.rendered[i] # "footer"
            /\ \A i \in 1..Len(shell'.rendered) : shell'.rendered[i] # "footer"
       /\ (shell.pc = "content" /\ shell.target # "" /\ shell'.rendered # <<>>) =>
            shell'.rendered[Len(shell'.rendered)] = ViewOf(shell.target)
       /\ (~Handles /\ "selected_category" \in DOMAIN shell.session_state) =>
            \/ shell'.session_state = shell.session_state
            \/ shell.pc = "idle" /\ shell'.session_state = NoShell.session_state]_vars

\* The report tools are shown by a complete run after their sidebar button
\* was pressed while the financial tools were selected.
C27_Witness ==
    /\ shell.completed
    /\ shell.target = "reports"
    /\ shell.previous = "financial"
    /\ shell.rendered = << "header", "sidebar", "reports", "footer" >>

====
